---- MODULE Spec2Model ----
(***************************************************************************)
(* ENUM synchronisation engine of PyHSS (lib/enum_management.py).          *)
(*                                                                         *)
(* Strings are sequences of tokens: a token is one character ("1", "+",    *)
(* ",") or an atomic piece of text whose inside no operation looks at (a   *)
(* configured domain, an endpoint name, a literal of a format string).     *)
(* Python dicts are functions whose DOMAIN is the set of keys present.     *)
(***************************************************************************)
EXTENDS Integers, Sequences, FiniteSets, TLC

VARIABLES
    enabled,       \* ENUMClient.enabled
    strict_mode,   \* ENUMClient.strict_mode
    endpoints,     \* ENUMClient.endpoints: sequence of endpoint descriptors
    pc,            \* "idle": no call in progress; "done": a call has ended
    op,            \* the operation of the last call
    args,          \* the raw arguments of the last call
    outcome,       \* how the last call ended: a returned result or a raised exception
    calls,         \* the transport calls (requests.patch) the last call made, in order
    source,        \* the subscriber source handed to reconcile_all, and how it behaves
    transport,     \* how the backends answer during a sweep
    source_calls,  \* the getAllPaginated calls of the sweep so far, and the last one
    page,          \* reconcile_all: page
    subscribers,   \* reconcile_all: subscribers, the page being processed
    sub_index,     \* reconcile_all: position of the for loop in subscribers
    sweep_results, \* reconcile_all: results
    create_result, \* reconcile_all: how create_enum_entries ended for the last subscriber
    backend,       \* the record sets the DNS backends hold, by (url, zone)
    backend_once,  \* backend as it was when the first pass of re-assertion ended
    passes,        \* the passes of re-assertion completed
    cache,         \* IfcTemplateCache._cache: the compiled templates by cache key
    file_loaders,  \* IfcTemplateCache._file_loaders: the search paths that have a loader
    instance,      \* template_cache._template_cache_instance
    constructed,   \* the IfcTemplateCache instances constructed so far
    threads,       \* per thread: the call it is in, its position, locals and return value
    database,      \* the ifc_template rows of the database, by template id
    files,         \* the template files under the search path
    history,       \* what has happened to the database rows and the cache so far
    bsf_config     \* ZnInterface.bsf_config

sweep_vars == <<source, transport, source_calls, page, subscribers, sub_index, sweep_results, create_result>>

backend_vars == <<backend, backend_once, passes>>

cache_vars == <<cache, file_loaders, instance, constructed, threads, database, files>>

vars == <<enabled, strict_mode, endpoints, pc, op, args, outcome, calls, sweep_vars, backend_vars, cache_vars,
          history, bsf_config>>

-----------------------------------------------------------------------------
(* Bounds of the model *)

\* endpoint descriptors plus domain entries in a configuration
MaxConfigSize == 4

\* the same, for the configurations update_enum_entries is called under (an update
\* runs two sub-calls, so its outcomes grow with the square of those of a create)
MaxUpdateConfigSize == 3

-----------------------------------------------------------------------------
(* Values *)

\* Python's None for an Optional[str] argument
None == <<"<None>">>

\* a dict with no key
EmptyDict == [k \in {} |-> {}]

\* Python's None where the other values are records
NoValue == [kind |-> "none"]

DictPut(d, key, val) == [k \in (DOMAIN d) \cup {key} |-> IF k = key THEN val ELSE d[k]]

\* dict.get(key, default)
DictGet(d, key, default) == IF key \in DOMAIN d THEN d[key] ELSE default

Range(s) == {s[i] : i \in DOMAIN s}

Last(s) == s[Len(s)]

DigitChars == {"0", "1", "2", "3", "4", "5", "6", "7", "8", "9"}

\* str.isdigit on one character
IsDigit(c) == c \in DigitChars

\* only a leading non-digit character dropped
FilterLeadingNonDigit(s) == IF s # <<>> /\ ~IsDigit(Head(s)) THEN Tail(s) ELSE s

\* ''.join(filter(str.isdigit, s))
FilterDigits(s) == SelectSeq(s, IsDigit)

\* truthiness of an Optional[str]
Truthy(s) == s # None /\ s # <<>>

RECURSIVE Split(_, _)
\* s.split(sep) for a one-character separator
Split(s, sep) ==
    IF \A i \in DOMAIN s : s[i] # sep
    THEN <<s>>
    ELSE LET i == CHOOSE k \in DOMAIN s :
                      s[k] = sep /\ \A m \in 1..(k - 1) : s[m] # sep
         IN <<SubSeq(s, 1, i - 1)>> \o Split(SubSeq(s, i + 1, Len(s)), sep)

RECURSIVE Strip(_)
\* s.strip()
Strip(s) ==
    IF s = <<>> THEN s
    ELSE IF Head(s) = " " THEN Strip(Tail(s))
    ELSE IF Last(s) = " " THEN Strip(SubSeq(s, 1, Len(s) - 1))
    ELSE s

RECURSIVE ParseEntriesKeepingDuplicates(_, _)
\* the loop without its `clean not in all_msisdns` test
ParseEntriesKeepingDuplicates(entries, all_msisdns) ==
    IF entries = <<>> THEN all_msisdns
    ELSE LET clean == FilterDigits(Strip(Head(entries)))
         IN ParseEntriesKeepingDuplicates(Tail(entries),
                         IF clean # <<>> THEN Append(all_msisdns, clean) ELSE all_msisdns)

RECURSIVE ParseEntries(_, _)
\* `for m in msisdn_list.split(',')` of _parse_msisdn_list
ParseEntries(entries, all_msisdns) ==
    IF entries = <<>> THEN all_msisdns
    ELSE LET clean == FilterDigits(Strip(Head(entries)))
         IN ParseEntries(Tail(entries),
                         IF clean # <<>> /\ clean \notin Range(all_msisdns)
                         THEN Append(all_msisdns, clean)
                         ELSE all_msisdns)

\* ENUMClient._parse_msisdn_list
ParseMsisdnList(msisdn, msisdn_list) ==
    LET primary == IF Truthy(msisdn) /\ FilterDigits(msisdn) # <<>>
                   THEN <<FilterDigits(msisdn)>>
                   ELSE <<>>
    IN IF Truthy(msisdn_list)
       THEN ParseEntries(Split(msisdn_list, ","), primary)
       ELSE primary

RECURSIVE Reverse(_)
Reverse(s) == IF s = <<>> THEN <<>> ELSE Append(Reverse(Tail(s)), Head(s))

RECURSIVE JoinWith(_, _)
\* sep.join(parts), parts a sequence of strings
JoinWith(parts, sep) ==
    IF parts = <<>> THEN <<>>
    ELSE IF Len(parts) = 1 THEN Head(parts)
    ELSE Head(parts) \o <<sep>> \o JoinWith(Tail(parts), sep)

\* the digits joined without being reversed
MsisdnToEnumNameUnreversed(msisdn, domain) ==
    LET clean_msisdn == FilterDigits(msisdn)
        digits == JoinWith([i \in DOMAIN clean_msisdn |-> <<clean_msisdn[i]>>], ".")
    IN digits \o <<".", domain>>

\* ENUMClient.msisdn_to_enum_name
MsisdnToEnumName(msisdn, domain) ==
    LET clean_msisdn == FilterDigits(msisdn)
        reversed_digits == JoinWith([i \in DOMAIN clean_msisdn |-> <<Reverse(clean_msisdn)[i]>>], ".")
    IN reversed_digits \o <<".", domain>>


-----------------------------------------------------------------------------
(* Configuration defaults, ENUMClient.__init__ *)

naptr_order == 10

\* a preference that rises with every pass of re-assertion
NaptrPreferenceRising == 10 + passes

naptr_preference == 10

naptr_ttl == 3600

\* ENUMClient.generate_naptr_content
GenerateNaptrContent(msisdn, sip_domain) ==
    LET clean_msisdn == FilterDigits(msisdn)
    IN <<ToString(naptr_order), " ", ToString(naptr_preference), " \"u\" \"E2U+sip\" ",
         "\"!^.*$!sip:">> \o clean_msisdn \o <<"@", sip_domain, "!\" .">>

-----------------------------------------------------------------------------
(* Exceptions *)

NoExc == [type |-> "none", msg |-> <<>>]

\* raise ENUMManagementError(msg)
ENUMManagementError(msg) == [type |-> "ENUMManagementError", msg |-> msg]

\* endpoint[key] on a dict without the key
KeyError(key) == [type |-> "KeyError", msg |-> <<key>>]

-----------------------------------------------------------------------------
(* Endpoint transport *)

\* what requests.patch does when called: an HTTP response with a status code and
\* a body, or a requests.exceptions.RequestException
HttpResponse(status, text) == [kind |-> "http", status_code |-> status, text |-> text]
RequestException(text) == [kind |-> "exception", status_code |-> 0, text |-> text]

\* every status code of the 2xx class taken for success
SuccessStatusAny2xx(status_code) == status_code \in 200..299

\* the status codes for which _make_pdns_request reports success
SuccessStatus(status_code) == status_code \in {200, 204}

\* ENUMClient._make_pdns_request: sent says whether requests.patch was called
MakePdnsRequest(endpoint, zone, rrsets, response) ==
    IF "url" \notin DOMAIN endpoint
    THEN [exc |-> KeyError("url"), sent |-> FALSE, success |-> FALSE, error |-> <<>>]
    ELSE IF "api_key" \notin DOMAIN endpoint
    THEN [exc |-> KeyError("api_key"), sent |-> FALSE, success |-> FALSE, error |-> <<>>]
    ELSE IF response.kind = "http"
    THEN IF SuccessStatus(response.status_code)
         THEN [exc |-> NoExc, sent |-> TRUE, success |-> TRUE, error |-> None]
         ELSE [exc |-> NoExc, sent |-> TRUE, success |-> FALSE,
               error |-> <<"PowerDNS API error: ", ToString(response.status_code), " - ",
                           response.text>>]
    ELSE [exc |-> NoExc, sent |-> TRUE, success |-> FALSE,
          error |-> <<"PowerDNS request failed: ", response.text>>]

\* one entry of the transport log: the request requests.patch was given and its outcome
TransportCall(ei, endpoint, zone, rrsets, response, success) ==
    [endpoint |-> ei, url |-> endpoint["url"], zone |-> zone, rrsets |-> rrsets,
     response |-> response, success |-> success]

-----------------------------------------------------------------------------
(* Sync operations *)

\* the enabled check left out
DisabledNever == FALSE

\* `if not self.enabled:`
Disabled == ~enabled

\* endpoint.get('name', endpoint.get('url', 'unknown'))
EndpointName(endpoint) == DictGet(endpoint, "name", DictGet(endpoint, "url", "unknown"))

\* the domains iterated in the wrong order
EndpointDomainsReversed(endpoint) == Reverse(DictGet(endpoint, "domains", <<>>))

\* endpoint.get('domains', [])
EndpointDomains(endpoint) == DictGet(endpoint, "domains", <<>>)

\* the domain left out of the error entry
ErrorDetailNoDomain(endpoint_name, domain, error) == <<endpoint_name, ": ">> \o error

\* f"{endpoint_name}/{domain}: {error}"
ErrorDetail(endpoint_name, domain, error) == <<endpoint_name, "/", domain, ": ">> \o error

\* a failed attempt never aborts the call
StrictAbortNever == FALSE

\* `if self.strict_mode:` after a failed attempt
StrictAbort == strict_mode

\* the status left as initialised
FinalStatusUnchanged(results) == results

\* `if results['errors']: results['status'] = 'partial'`
FinalStatus(results) ==
    IF results.errors # <<>> THEN [results EXCEPT !.status = "partial"] ELSE results

\* results['endpoints'][endpoint_name]['domains'][domain] = {'success': ..., 'msisdns': ...}
RecordAttempt(results, endpoint_name, domain, success, all_msisdns) ==
    [results EXCEPT !.endpoints =
        DictPut(results.endpoints, endpoint_name,
                [domains |-> DictPut(results.endpoints[endpoint_name].domains, domain,
                                     [success |-> success, msisdns |-> all_msisdns])])]

\* rrsets named without the trailing dot
CreateRrsetsWithoutDot(all_msisdns, domain, sip_domain) ==
    [i \in 1..Len(all_msisdns) |->
        [name |-> MsisdnToEnumName(all_msisdns[i], domain),
         type |-> "NAPTR",
         ttl |-> naptr_ttl,
         changetype |-> "REPLACE",
         records |-> <<[content |-> GenerateNaptrContent(all_msisdns[i], sip_domain),
                        disabled |-> FALSE]>>]]

\* the rrsets create_enum_entries builds for one (endpoint, domain)
CreateRrsets(all_msisdns, domain, sip_domain) ==
    [i \in 1..Len(all_msisdns) |->
        [name |-> MsisdnToEnumName(all_msisdns[i], domain) \o <<".">>,
         type |-> "NAPTR",
         ttl |-> naptr_ttl,
         changetype |-> "REPLACE",
         records |-> <<[content |-> GenerateNaptrContent(all_msisdns[i], sip_domain),
                        disabled |-> FALSE]>>]]

\* DELETE rrsets that carry a TTL
DeleteRrsetsWithTtl(all_msisdns, domain) ==
    [i \in 1..Len(all_msisdns) |->
        [name |-> MsisdnToEnumName(all_msisdns[i], domain) \o <<".">>,
         type |-> "NAPTR",
         ttl |-> naptr_ttl,
         changetype |-> "DELETE",
         records |-> <<>>]]

\* the rrsets delete_enum_entries builds for one (endpoint, domain)
DeleteRrsets(all_msisdns, domain) ==
    [i \in 1..Len(all_msisdns) |->
        [name |-> MsisdnToEnumName(all_msisdns[i], domain) \o <<".">>,
         type |-> "NAPTR",
         changetype |-> "DELETE",
         records |-> <<>>]]

\* The state of a call in progress: the results dict, the transport log, and the
\* exception that ended it (NoExc while it runs).
StartCall == [results |-> [status |-> "ok", endpoints |-> EmptyDict, errors |-> <<>>],
              calls |-> <<>>, exc |-> NoExc]

\* the end of a call: an exception raised in the loops propagates, otherwise the
\* final status is set and results returned
EndCall(st) == IF st.exc # NoExc THEN st ELSE [st EXCEPT !.results = FinalStatus(@)]

\* one iteration of the domain loop body, given the rrsets built for it
Attempt(st, ei, domain, rrsets, all_msisdns, oracle, failed) ==
    LET endpoint == endpoints[ei]
        endpoint_name == EndpointName(endpoint)
        response == oracle[Len(st.calls) + 1]
        r == MakePdnsRequest(endpoint, domain, rrsets, response)
    IN IF r.exc # NoExc
       THEN [st EXCEPT !.exc = r.exc]
       ELSE LET recorded == RecordAttempt(st.results, endpoint_name, domain, r.success,
                                          all_msisdns)
                call == TransportCall(ei, endpoint, domain, rrsets, response, r.success)
                error_detail == ErrorDetail(endpoint_name, domain, r.error)
            IN IF ~r.success
               THEN IF StrictAbort
                    THEN [results |-> [recorded EXCEPT !.errors = Append(@, error_detail),
                                                       !.status = "error"],
                          calls |-> Append(st.calls, call),
                          exc |-> ENUMManagementError(<<failed>> \o error_detail)]
                    ELSE [results |-> [recorded EXCEPT !.errors = Append(@, error_detail)],
                          calls |-> Append(st.calls, call),
                          exc |-> NoExc]
               ELSE [results |-> recorded, calls |-> Append(st.calls, call), exc |-> NoExc]

RECURSIVE CreateDomainLoop(_, _, _, _, _)
\* `for domain in endpoint.get('domains', [])` of create_enum_entries, from the j-th domain
CreateDomainLoop(st, ei, j, all_msisdns, oracle) ==
    LET domains == EndpointDomains(endpoints[ei])
    IN IF st.exc # NoExc \/ j > Len(domains)
       THEN st
       ELSE LET sip_domain == DictGet(endpoints[ei], "sip_domain", "")
                rrsets == CreateRrsets(all_msisdns, domains[j], sip_domain)
            IN CreateDomainLoop(
                   Attempt(st, ei, domains[j], rrsets, all_msisdns, oracle,
                           "ENUM creation failed: "),
                   ei, j + 1, all_msisdns, oracle)

RECURSIVE CreateEndpointLoop(_, _, _, _)
\* `for endpoint in self.endpoints` of create_enum_entries, from the ei-th endpoint
CreateEndpointLoop(st, ei, all_msisdns, oracle) ==
    IF st.exc # NoExc \/ ei > Len(endpoints)
    THEN st
    ELSE LET entered == [st EXCEPT !.results.endpoints =
                            DictPut(@, EndpointName(endpoints[ei]), [domains |-> EmptyDict])]
         IN CreateEndpointLoop(CreateDomainLoop(entered, ei, 1, all_msisdns, oracle),
                               ei + 1, all_msisdns, oracle)

\* ENUMClient.create_enum_entries: oracle[k] is what requests.patch does on the
\* k-th transport call of this call
CreateEnumEntries(msisdn, msisdn_list, oracle) ==
    IF Disabled
    THEN [results |-> [status |-> "disabled"], calls |-> <<>>, exc |-> NoExc]
    ELSE LET all_msisdns == ParseMsisdnList(msisdn, msisdn_list)
         IN IF all_msisdns = <<>>
            THEN [results |-> [status |-> "no_msisdns"], calls |-> <<>>, exc |-> NoExc]
            ELSE EndCall(CreateEndpointLoop(StartCall, 1, all_msisdns, oracle))

RECURSIVE DeleteDomainLoop(_, _, _, _, _)
\* `for domain in endpoint.get('domains', [])` of delete_enum_entries, from the j-th domain
DeleteDomainLoop(st, ei, j, all_msisdns, oracle) ==
    LET domains == EndpointDomains(endpoints[ei])
    IN IF st.exc # NoExc \/ j > Len(domains)
       THEN st
       ELSE LET rrsets == DeleteRrsets(all_msisdns, domains[j])
            IN DeleteDomainLoop(
                   Attempt(st, ei, domains[j], rrsets, all_msisdns, oracle,
                           "ENUM deletion failed: "),
                   ei, j + 1, all_msisdns, oracle)

RECURSIVE DeleteEndpointLoop(_, _, _, _)
\* `for endpoint in self.endpoints` of delete_enum_entries, from the ei-th endpoint
DeleteEndpointLoop(st, ei, all_msisdns, oracle) ==
    IF st.exc # NoExc \/ ei > Len(endpoints)
    THEN st
    ELSE LET entered == [st EXCEPT !.results.endpoints =
                            DictPut(@, EndpointName(endpoints[ei]), [domains |-> EmptyDict])]
         IN DeleteEndpointLoop(DeleteDomainLoop(entered, ei, 1, all_msisdns, oracle),
                               ei + 1, all_msisdns, oracle)

\* ENUMClient.delete_enum_entries
DeleteEnumEntries(msisdn, msisdn_list, oracle) ==
    IF Disabled
    THEN [results |-> [status |-> "disabled"], calls |-> <<>>, exc |-> NoExc]
    ELSE LET all_msisdns == ParseMsisdnList(msisdn, msisdn_list)
         IN IF all_msisdns = <<>>
            THEN [results |-> [status |-> "no_msisdns"], calls |-> <<>>, exc |-> NoExc]
            ELSE EndCall(DeleteEndpointLoop(StartCall, 1, all_msisdns, oracle))


\* the old set taken whole instead of the difference
SetDifferenceKeepAll(a, b) == a

\* old_set - new_set
SetDifference(a, b) == a \ b

\* the orders in which Python may iterate over a set
IterationOrders(S) == {s \in [1..Cardinality(S) -> S] : Range(s) = S}

\* the exception of a sub-call swallowed
UpdateReraisesNever == FALSE

\* `if self.strict_mode:` in the except clauses of update_enum_entries
UpdateReraises == strict_mode

\* the oracle seen by a sub-call that starts after n transport calls
Shift(oracle, n) == [k \in 1..(Len(oracle) - n) |-> oracle[k + n]]

\* a faulty merge that puts the errors of the later phase first
ExtendErrorsInFront(errors, more) == more \o errors

\* results['errors'].extend(...) of update_enum_entries
ExtendErrors(errors, more) == errors \o more

\* the try/except around the delete sub-call of update_enum_entries: d is how
\* delete_enum_entries ended, iter_delete the order in which to_delete is iterated
AfterDelete(st, iter_delete, d) ==
    IF d.exc = NoExc
    THEN [results |-> [st.results EXCEPT
                          !.deleted = iter_delete,
                          !.errors = ExtendErrors(@, DictGet(d.results, "errors", <<>>))],
          calls |-> st.calls \o d.calls,
          exc |-> NoExc]
    ELSE IF d.exc.type = "ENUMManagementError"
    THEN [results |-> [st.results EXCEPT
                          !.errors = Append(@, d.exc.msg),
                          !.status = IF UpdateReraises THEN "error" ELSE @],
          calls |-> st.calls \o d.calls,
          exc |-> IF UpdateReraises THEN d.exc ELSE NoExc]
    ELSE [st EXCEPT !.calls = @ \o d.calls, !.exc = d.exc]

\* "Delete removed MSISDNs" of update_enum_entries
UpdateDeletePhase(st, to_delete, iter_delete, oracle) ==
    IF to_delete = {}
    THEN st
    ELSE AfterDelete(st, iter_delete,
                     DeleteEnumEntries(None, JoinWith(iter_delete, ","), oracle))

\* the try/except around the create sub-call of update_enum_entries
AfterCreate(st, iter_create, c) ==
    IF c.exc = NoExc
    THEN [results |-> [st.results EXCEPT
                          !.created = iter_create,
                          !.errors = ExtendErrors(@, DictGet(c.results, "errors", <<>>))],
          calls |-> st.calls \o c.calls,
          exc |-> NoExc]
    ELSE IF c.exc.type = "ENUMManagementError"
    THEN [results |-> [st.results EXCEPT
                          !.errors = Append(@, c.exc.msg),
                          !.status = IF UpdateReraises THEN "error" ELSE @],
          calls |-> st.calls \o c.calls,
          exc |-> IF UpdateReraises THEN c.exc ELSE NoExc]
    ELSE [st EXCEPT !.calls = @ \o c.calls, !.exc = c.exc]

\* "Create new MSISDNs" of update_enum_entries, reached unless the delete phase
\* raised; the create sub-call sees what requests.patch does after the calls of
\* the delete phase
UpdateCreatePhase(st, to_create, iter_create, oracle) ==
    IF st.exc # NoExc \/ to_create = {}
    THEN st
    ELSE AfterCreate(st, iter_create,
                     CreateEnumEntries(None, JoinWith(iter_create, ","),
                                       Shift(oracle, Len(st.calls))))

\* results of update_enum_entries as initialised
StartUpdate == [results |-> [status |-> "ok", deleted |-> <<>>, created |-> <<>>,
                             errors |-> <<>>],
                calls |-> <<>>, exc |-> NoExc]

\* ENUMClient.update_enum_entries
UpdateEnumEntries(old_msisdn, old_msisdn_list, new_msisdn, new_msisdn_list, iter_delete, iter_create, oracle) ==
    IF Disabled
    THEN [results |-> [status |-> "disabled"], calls |-> <<>>, exc |-> NoExc]
    ELSE LET old_set == Range(ParseMsisdnList(old_msisdn, old_msisdn_list))
             new_set == Range(ParseMsisdnList(new_msisdn, new_msisdn_list))
             to_delete == SetDifference(old_set, new_set)
             to_create == SetDifference(new_set, old_set)
         IN EndCall(UpdateCreatePhase(
                        UpdateDeletePhase(StartUpdate, to_delete, iter_delete, oracle),
                        to_create, iter_create, oracle))

-----------------------------------------------------------------------------
(* The configurations and inputs of the model *)

\* what requests.patch may do on one call
Responses == {HttpResponse(204, ""), HttpResponse(500, "boom")}

Domains == {"d", "e"}

\* an endpoint descriptor without its 'domains' key: url and api_key are read by
\* subscript, name and sip_domain by .get with a default
EndpointHeaders ==
    { [url |-> "u", api_key |-> "k", name |-> "a", sip_domain |-> "ims.a"],
      [url |-> "u", api_key |-> "k"] }

DomainLists(n) == UNION {[1..k -> Domains] : k \in 0..n}

\* endpoint descriptors whose size (1 + number of domains) is at most n
Descriptors(n) ==
    IF n < 1 THEN {}
    ELSE EndpointHeaders \cup {h @@ [domains |-> ds] : h \in EndpointHeaders, ds \in DomainLists(n - 1)}

DescriptorSize(e) == 1 + Len(EndpointDomains(e))

RECURSIVE Configurations(_)
\* the endpoint lists of total size at most n
Configurations(n) ==
    {<<>>} \cup UNION { {<<e>> \o rest : rest \in Configurations(n - DescriptorSize(e))}
                        : e \in Descriptors(n) }

RECURSIVE ConfigSize(_)
ConfigSize(eps) == IF eps = <<>> THEN 0 ELSE DescriptorSize(Head(eps)) + ConfigSize(Tail(eps))

RECURSIVE PairCount(_)
\* the number of (endpoint, domain) pairs of an endpoint list
PairCount(eps) == IF eps = <<>> THEN 0 ELSE Len(EndpointDomains(Head(eps))) + PairCount(Tail(eps))

Oracles(n) == [1..n -> Responses]

Primaries == {None, <<>>, <<"+", "1">>}

MsisdnLists == {None, <<"2", ",", " ", "1">>, <<"+", ",">>, <<"2", ",", "3">>}

MsisdnInputs == [msisdn : Primaries, msisdn_list : MsisdnLists]

UpdateInputs == [msisdn : {None, <<"+", "1">>},
                 msisdn_list : {None, <<"2", ",", " ", "1">>, <<"2", ",", "3">>}]

NoOutcome == [kind |-> "none", results |-> EmptyDict, exc |-> NoExc]

\* what the caller sees of a finished call
Outcome(st) ==
    IF st.exc = NoExc
    THEN [kind |-> "return", results |-> st.results, exc |-> NoExc]
    ELSE [kind |-> "raise", results |-> EmptyDict, exc |-> st.exc]

\* the variables of reconcile_all while no sweep runs
NoSweep ==
    /\ source = None
    /\ transport = None
    /\ source_calls = [count |-> 0, last |-> None]
    /\ page = 0
    /\ subscribers = <<>>
    /\ sub_index = 0
    /\ sweep_results = EmptyDict
    /\ create_result = None

\* the variables of the backends while no backend is watched
NoBackend ==
    /\ backend = EmptyDict
    /\ backend_once = EmptyDict
    /\ passes = 0

\* nothing has happened yet
NoHistory == [changed |-> {}, invalidated |-> {}, later |-> {}, loaded |-> {}]

\* the variables of the template cache and of the Zn interface while neither is watched
NoCache ==
    /\ cache = EmptyDict
    /\ file_loaders = {}
    /\ instance = NoValue
    /\ constructed = 0
    /\ threads = <<>>
    /\ database = EmptyDict
    /\ files = EmptyDict
    /\ history = NoHistory
    /\ bsf_config = EmptyDict

-----------------------------------------------------------------------------
(* The state machine: a client is constructed and one operation is called *)

Init ==
    /\ enabled \in BOOLEAN
    /\ strict_mode \in BOOLEAN
    /\ endpoints \in Configurations(MaxConfigSize)
    /\ pc = "idle"
    /\ op = "none"
    /\ args = <<>>
    /\ outcome = NoOutcome
    /\ calls = <<>>
    /\ NoSweep
    /\ NoBackend
    /\ NoCache

Create ==
    /\ pc = "idle"
    /\ \E in \in MsisdnInputs, oracle \in Oracles(PairCount(endpoints)) :
          \E st \in {CreateEnumEntries(in.msisdn, in.msisdn_list, oracle)} :
             /\ op' = "create"
             /\ args' = <<in>>
             /\ outcome' = Outcome(st)
             /\ calls' = st.calls
    /\ pc' = "done"
    /\ UNCHANGED <<enabled, strict_mode, endpoints, sweep_vars, backend_vars, cache_vars, history, bsf_config>>

Delete ==
    /\ pc = "idle"
    /\ \E in \in MsisdnInputs, oracle \in Oracles(PairCount(endpoints)) :
          \E st \in {DeleteEnumEntries(in.msisdn, in.msisdn_list, oracle)} :
             /\ op' = "delete"
             /\ args' = <<in>>
             /\ outcome' = Outcome(st)
             /\ calls' = st.calls
    /\ pc' = "done"
    /\ UNCHANGED <<enabled, strict_mode, endpoints, sweep_vars, backend_vars, cache_vars, history, bsf_config>>

Update ==
    /\ pc = "idle"
    /\ ConfigSize(endpoints) <= MaxUpdateConfigSize
    /\ \E old \in UpdateInputs, new \in UpdateInputs :
          LET old_set == Range(ParseMsisdnList(old.msisdn, old.msisdn_list))
              new_set == Range(ParseMsisdnList(new.msisdn, new.msisdn_list))
          IN \E iter_delete \in IterationOrders(SetDifference(old_set, new_set)),
                iter_create \in IterationOrders(SetDifference(new_set, old_set)),
                oracle \in Oracles(2 * PairCount(endpoints)) :
                \E st \in {UpdateEnumEntries(old.msisdn, old.msisdn_list,
                                              new.msisdn, new.msisdn_list,
                                              iter_delete, iter_create, oracle)} :
                   /\ op' = "update"
                   /\ args' = <<old, new>>
                   /\ outcome' = Outcome(st)
                   /\ calls' = st.calls
    /\ pc' = "done"
    /\ UNCHANGED <<enabled, strict_mode, endpoints, sweep_vars, backend_vars, cache_vars, history, bsf_config>>

Next == Create \/ Delete \/ Update

Spec == Init /\ [][Next]_vars

-----------------------------------------------------------------------------
(* Reconciliation driver: ENUMClient.reconcile_all *)

page_size == 100

\* the page index above which the sweep stops
PageCeiling == 10000

\* results['errors'] and results['subscribers'] of reconcile_all are only ever
\* appended to and never read back: such a list is kept as its length and its last
\* element
EmptyList == [len |-> 0, last |-> None]

ListAppend(l, x) == [len |-> l.len + 1, last |-> x]

\* results of reconcile_all as initialised
StartReconcile ==
    [status |-> "ok", processed |-> 0, succeeded |-> 0, failed |-> 0,
     errors |-> EmptyList, subscribers |-> EmptyList]

\* a faulty reading of the statuses that count as succeeded
SucceededStatusesWithPartial == {"ok", "disabled", "no_msisdns", "partial"}

\* the create statuses reconcile_all counts as succeeded
SucceededStatuses == {"ok", "disabled", "no_msisdns"}

\* the body of the for loop after results['processed'] += 1, for a create that
\* returned or raised ENUMManagementError: st is how create_enum_entries ended
SubscriberOutcome(res, sub, st) ==
    IF st.exc = NoExc
    THEN IF DictGet(st.results, "status", None) \in SucceededStatuses
         THEN [res EXCEPT
                  !.succeeded = @ + 1,
                  !.subscribers = ListAppend(@, [ims_subscriber_id |-> DictGet(sub, "ims_subscriber_id", None),
                                                 msisdn |-> DictGet(sub, "msisdn", None),
                                                 status |-> "ok"])]
         ELSE [res EXCEPT
                  !.failed = @ + 1,
                  !.subscribers = ListAppend(@, [ims_subscriber_id |-> DictGet(sub, "ims_subscriber_id", None),
                                                 msisdn |-> DictGet(sub, "msisdn", None),
                                                 status |-> "partial",
                                                 errors |-> DictGet(st.results, "errors", <<>>)])]
    ELSE [res EXCEPT
             !.failed = @ + 1,
             !.errors = ListAppend(@, <<"Subscriber ", DictGet(sub, "ims_subscriber_id", None), ": ">> \o st.exc.msg),
             !.subscribers = ListAppend(@, [ims_subscriber_id |-> DictGet(sub, "ims_subscriber_id", None),
                                            msisdn |-> DictGet(sub, "msisdn", None),
                                            status |-> "error",
                                            error |-> st.exc.msg])]

\* a per-subscriber handler that catches nothing
CaughtPerSubscriberNever(e) == FALSE

\* "except ENUMManagementError as e" around the create of one subscriber
CaughtPerSubscriber(e) == e.type = "ENUMManagementError"

\* a sweep-level handler as narrow as the per-subscriber one
SweepCatchesOnlyEnumErrors(e) == e.type = "ENUMManagementError"

\* "except Exception as e" around the sweep: everything but the exceptions that
\* end the interpreter
SweepCatches(e) == e.type \notin {"KeyboardInterrupt", "SystemExit", "GeneratorExit"}

\* the sweep-level except clause
SweepFailed(res, e) ==
    [res EXCEPT !.status = "error",
                !.errors = ListAppend(@, <<"Reconciliation failed: ">> \o e.msg)]

\* the status left as the try statement set it
FinishSweepKeepingStatus(res) == res

\* the end of reconcile_all, after the try statement
FinishSweep(res) == IF res.failed > 0 THEN [res EXCEPT !.status = "partial"] ELSE res

\* a faulty test that also ends the sweep at a page shorter than page_size
EndOfPagesAtShortPage(rows) == Len(rows) < page_size

\* "if not subscribers or len(subscribers) == 0", for the lists a source returns
EndOfPages(rows) == Len(rows) = 0

\* a safety check that never fires
CeilingReachedNever(p) == FALSE

\* "if page > 10000"
CeilingReached(p) == p > PageCeiling

\* a faulty sweep that deletes what it should re-assert
ReassertByDelete(msisdn, msisdn_list, oracle) == DeleteEnumEntries(msisdn, msisdn_list, oracle)

\* "create_result = self.create_enum_entries(msisdn, msisdn_list)"
Reassert(msisdn, msisdn_list, oracle) == CreateEnumEntries(msisdn, msisdn_list, oracle)

\* The subscriber source (database_client.getAllPaginated) is a collaborator of
\* the engine: it holds `size` subscribers and hands them out in pages, or never
\* stops handing out one-subscriber pages, and it may raise when asked for page
\* `raises_at`.
Endless == -1

NoPage == -1

\* the highest page index at which a source of the model raises
MaxRaisePage == 2

\* the i-th subscriber of the population: every third has no MSISDN at all
SubscriberAt(i) ==
    [ims_subscriber_id |-> ToString(i),
     msisdn |-> IF i % 3 = 1 THEN <<"+", "1">> ELSE None,
     msisdn_list |-> IF i % 3 = 2 THEN <<"2", ",", "3">> ELSE None]

StoreSizes == {0, 1, page_size, 2 * page_size + 50}

StoreSources == [size : StoreSizes, raises_at : {NoPage} \cup 0..MaxRaisePage]

EndlessSources == [size : {Endless}, raises_at : {NoPage, MaxRaisePage}]

DatabaseError == [type |-> "OperationalError", msg |-> <<"connection lost">>]

Min(a, b) == IF a < b THEN a ELSE b

\* database_client.getAllPaginated(IMS_SUBSCRIBER, p, size) on source src
GetAllPaginated(src, p, size) ==
    IF p = src.raises_at
    THEN [exc |-> DatabaseError, rows |-> <<>>]
    ELSE IF src.size = Endless
    THEN [exc |-> NoExc, rows |-> <<SubscriberAt(p + 1)>>]
    ELSE [exc |-> NoExc,
          rows |-> [k \in 1..Min(size, src.size - p * size) |-> SubscriberAt(p * size + k)]]

\* how the backends answer during a sweep: the first transport call made for
\* every fail_every-th subscriber fails (0: no call fails)
TransportPlans == [fail_every : {0, 1, 2, 37}]

\* what requests.patch does on the calls made for the k-th subscriber of the sweep
SubscriberOracle(k) ==
    [c \in 1..PairCount(endpoints) |->
        IF transport.fail_every > 0 /\ k % transport.fail_every = 0 /\ c = 1
        THEN HttpResponse(500, "boom")
        ELSE HttpResponse(204, "")]

\* the configurations sweeps run under
SweepConfigurations ==
    { <<>>,
      <<[url |-> "u", api_key |-> "k", name |-> "a", sip_domain |-> "ims.a", domains |-> <<"d">>]>>,
      <<[url |-> "u", api_key |-> "k", name |-> "a", sip_domain |-> "ims.a", domains |-> <<"d", "e">>]>>,
      <<[url |-> "u", api_key |-> "k", domains |-> <<"d">>],
        [url |-> "u", api_key |-> "k", name |-> "a", sip_domain |-> "ims.a", domains |-> <<"e">>]>> }

\* a client is constructed and handed a subscriber source
SweepInit ==
    /\ enabled \in BOOLEAN
    /\ strict_mode \in BOOLEAN
    /\ \/ /\ source \in StoreSources
          /\ endpoints \in SweepConfigurations
          /\ transport \in TransportPlans
       \/ /\ source \in EndlessSources
          /\ endpoints \in {cfg \in SweepConfigurations : Len(cfg) = 1}
          /\ transport \in TransportPlans
    /\ pc = "idle"
    /\ op = "none"
    /\ args = <<>>
    /\ outcome = NoOutcome
    /\ calls = <<>>
    /\ source_calls = [count |-> 0, last |-> None]
    /\ page = 0
    /\ subscribers = <<>>
    /\ sub_index = 0
    /\ sweep_results = EmptyDict
    /\ create_result = None
    /\ NoBackend
    /\ NoCache

\* reconcile_all returns res
ReturnSweep(res) ==
    /\ sweep_results' = res
    /\ outcome' = [kind |-> "return", results |-> res, exc |-> NoExc]
    /\ pc' = "done"

\* exception e ends the try statement of reconcile_all
EndSweepOn(res, e) ==
    IF SweepCatches(e)
    THEN ReturnSweep(FinishSweep(SweepFailed(res, e)))
    ELSE /\ outcome' = [kind |-> "raise", results |-> EmptyDict, exc |-> e]
         /\ pc' = "done"
         /\ UNCHANGED sweep_results

\* reconcile_all is called: the disabled check and the initialisation
ReconcileAll ==
    /\ pc = "idle"
    /\ op' = "reconcile_all"
    /\ IF Disabled
       THEN ReturnSweep([status |-> "disabled"])
       ELSE /\ sweep_results' = StartReconcile
            /\ pc' = "fetch"
            /\ UNCHANGED outcome
    /\ page' = 0
    /\ UNCHANGED <<enabled, strict_mode, endpoints, args, calls, source, transport,
                   source_calls, subscribers, sub_index, create_result, backend_vars, cache_vars, history, bsf_config>>

\* the head of the while loop: the next page is asked for
FetchPage ==
    /\ pc = "fetch"
    /\ source_calls' = [count |-> source_calls.count + 1,
                        last |-> [page |-> page, page_size |-> page_size]]
    /\ \E got \in {GetAllPaginated(source, page, page_size)} :
          IF got.exc # NoExc
          THEN /\ EndSweepOn(sweep_results, got.exc)
               /\ UNCHANGED <<subscribers, sub_index>>
          ELSE IF EndOfPages(got.rows)
          THEN /\ ReturnSweep(FinishSweep(sweep_results))
               /\ UNCHANGED <<subscribers, sub_index>>
          ELSE /\ subscribers' = got.rows
               /\ sub_index' = 1
               /\ pc' = "process"
               /\ UNCHANGED <<sweep_results, outcome>>
    /\ UNCHANGED <<enabled, strict_mode, endpoints, op, args, calls, source, transport,
                   page, create_result, backend_vars, cache_vars, history, bsf_config>>

\* the end of one iteration of the for loop: the next subscriber, or the end of
\* the page with its safety check
NextSubscriber(res) ==
    IF sub_index < Len(subscribers)
    THEN /\ sub_index' = sub_index + 1
         /\ sweep_results' = res
         /\ UNCHANGED <<page, pc, outcome>>
    ELSE /\ page' = page + 1
         /\ UNCHANGED sub_index
         /\ IF CeilingReached(page + 1)
            THEN ReturnSweep(FinishSweep(res))
            ELSE /\ sweep_results' = res
                 /\ pc' = "fetch"
                 /\ UNCHANGED outcome

\* one iteration of the for loop over the page
ProcessSubscriber ==
    /\ pc = "process"
    /\ \E sub \in {subscribers[sub_index]},
          res \in {[sweep_results EXCEPT !.processed = @ + 1]} :
          \E st \in {Reassert(DictGet(sub, "msisdn", None), DictGet(sub, "msisdn_list", None),
                              oracle) : oracle \in {SubscriberOracle(res.processed)}} :
             /\ create_result' = Outcome(st)
             /\ calls' = st.calls
             /\ IF st.exc \in {NoExc} \/ CaughtPerSubscriber(st.exc)
                THEN NextSubscriber(SubscriberOutcome(res, sub, st))
                ELSE /\ EndSweepOn(res, st.exc)
                     /\ UNCHANGED <<page, sub_index>>
    /\ UNCHANGED <<enabled, strict_mode, endpoints, op, args, source, transport,
                   source_calls, subscribers, backend_vars, cache_vars, history, bsf_config>>

SweepNext == ReconcileAll \/ FetchPage \/ ProcessSubscriber

SweepSpec == SweepInit /\ [][SweepNext]_vars

\* where the sweep is: in the while loop, in the page, in the pages
control == <<pc, page, sub_index>>

\* The interpreter keeps executing reconcile_all until it returns. The steps of
\* SweepNext are the steps that move the control of the sweep, and one is enabled
\* exactly while the sweep has not returned, so fairness is stated on the control.
SweepStep ==
    /\ pc # "done"
    /\ pc' \in {"fetch", "process", "done"}
    /\ page' \in {0, page, page + 1}
    /\ sub_index' \in {1, sub_index, sub_index + 1}

FairSweepSpec == SweepSpec /\ WF_control(SweepStep)

-----------------------------------------------------------------------------
(* The DNS backends, and re-assertion of the same subscribers against them *)

MaxPasses == 2

\* a backend applies one rrset of a PATCH to a zone: REPLACE puts the given records
\* in the place of whatever the (name, type) held, DELETE removes what it held
ApplyRrset(zone, rrset) ==
    IF rrset.changetype = "REPLACE"
    THEN DictPut(zone, <<rrset.name, rrset.type>>, [ttl |-> rrset.ttl, records |-> rrset.records])
    ELSE [k \in (DOMAIN zone) \ {<<rrset.name, rrset.type>>} |-> zone[k]]

RECURSIVE ApplyRrsets(_, _)
\* the rrsets of one PATCH are applied in the order they were sent
ApplyRrsets(zone, rrsets) ==
    IF rrsets = <<>> THEN zone ELSE ApplyRrsets(ApplyRrset(zone, Head(rrsets)), Tail(rrsets))

\* the backends after one transport call: a call that did not succeed changes nothing
ApplyCall(b, call) ==
    IF ~call.success
    THEN b
    ELSE DictPut(b, <<call.url, call.zone>>,
                 ApplyRrsets(DictGet(b, <<call.url, call.zone>>, EmptyDict), call.rrsets))

RECURSIVE ApplyCalls(_, _)
\* the backends after the transport calls of one operation, in the order they were made
ApplyCalls(b, log) ==
    IF log = <<>> THEN b ELSE ApplyCalls(ApplyCall(b, Head(log)), Tail(log))

\* what a zone holds for a name before the client ever wrote it
StaleRecord == [ttl |-> 60, records |-> <<[content |-> <<"stale">>, disabled |-> FALSE]>>]

\* backends as the client may find them: empty, or zone d of backend u holding an
\* outdated record for MSISDN 1 and a record for MSISDN 9, which no subscriber has
FoundBackends ==
    { EmptyDict,
      DictPut(EmptyDict, <<"u", "d">>,
              DictPut(DictPut(EmptyDict, <<MsisdnToEnumName(<<"1">>, "d") \o <<".">>, "NAPTR">>, StaleRecord),
                      <<MsisdnToEnumName(<<"9">>, "d") \o <<".">>, "NAPTR">>, StaleRecord)) }

\* the configurations re-assertion runs under: those of the sweeps, and one where
\* two endpoints write the same zone of the same backend with different SIP domains
ReassertConfigurations ==
    SweepConfigurations \cup
    { <<[url |-> "u", api_key |-> "k", domains |-> <<"d">>],
        [url |-> "u", api_key |-> "k", name |-> "a", sip_domain |-> "ims.a", domains |-> <<"d">>]>> }

\* subscribers whose MSISDN sets overlap
OverlappingInputs == {in \in MsisdnInputs : in.msisdn # <<>> /\ in.msisdn_list # <<"+", ",">>}

\* unchanged subscriber stores: one subscriber, or two
ReassertStores ==
    {<<in>> : in \in MsisdnInputs} \cup {<<a, b>> : a \in OverlappingInputs, b \in OverlappingInputs}

\* a client is constructed next to backends whose transport never fails
ReassertInit ==
    /\ enabled \in BOOLEAN
    /\ strict_mode \in BOOLEAN
    /\ endpoints \in ReassertConfigurations
    /\ pc = "idle"
    /\ op = "none"
    /\ args = <<>>
    /\ outcome = NoOutcome
    /\ calls = <<>>
    /\ source = None
    /\ transport = [fail_every |-> 0]
    /\ source_calls = [count |-> 0, last |-> None]
    /\ page = 0
    /\ subscribers \in ReassertStores
    /\ sub_index = 1
    /\ sweep_results = EmptyDict
    /\ create_result = None
    /\ backend \in FoundBackends
    /\ backend_once = EmptyDict
    /\ passes = 0
    /\ NoCache

\* create_enum_entries is called for the next subscriber of the store and the
\* backends apply the calls it makes; after the last subscriber a pass is complete
ReassertSubscriber ==
    /\ passes < MaxPasses
    /\ \E sub \in {subscribers[sub_index]} :
          \E st \in {Reassert(DictGet(sub, "msisdn", None), DictGet(sub, "msisdn_list", None), oracle) :
                        oracle \in {SubscriberOracle(sub_index)}} :
             /\ op' = "create"
             /\ pc' = "done"
             /\ args' = <<sub>>
             /\ outcome' = Outcome(st)
             /\ calls' = st.calls
             /\ \E b \in {ApplyCalls(backend, st.calls)} :
                   /\ backend' = b
                   /\ IF sub_index < Len(subscribers)
                      THEN /\ sub_index' = sub_index + 1
                           /\ UNCHANGED <<backend_once, passes>>
                      ELSE /\ sub_index' = 1
                           /\ passes' = passes + 1
                           /\ backend_once' = IF passes = 0 THEN b ELSE backend_once
    /\ UNCHANGED <<enabled, strict_mode, endpoints, source, transport, source_calls, page,
                   subscribers, sweep_results, create_result, cache_vars, history, bsf_config>>

ReassertNext == ReassertSubscriber

ReassertSpec == ReassertInit /\ [][ReassertNext]_vars

-----------------------------------------------------------------------------
(* The helpers of the client, called on their own *)

\* the status codes a backend may answer with
StatusCodes == 100..599

\* what requests.patch may do on a call: any status with an empty or a non-empty
\* body, or a RequestException (connection refused, timeout)
TransportOutcomes ==
    {HttpResponse(status, text) : status \in StatusCodes, text \in {"", "boom"}}
        \cup {RequestException("refused"), RequestException("timed out")}

\* a client is constructed; its helpers are then called one at a time
HelperInit ==
    /\ enabled = TRUE
    /\ strict_mode = FALSE
    /\ endpoints = <<>>
    /\ pc = "idle"
    /\ op = "none"
    /\ args = <<>>
    /\ outcome = NoOutcome
    /\ calls = <<>>
    /\ NoSweep
    /\ NoBackend
    /\ NoCache

\* _make_pdns_request is called on a well-formed endpoint descriptor
CallMakePdnsRequest ==
    /\ pc = "idle"
    /\ \E endpoint \in EndpointHeaders, response \in TransportOutcomes :
          \E r \in {MakePdnsRequest(endpoint, "d", <<>>, response)} :
             /\ op' = "_make_pdns_request"
             /\ args' = <<endpoint, response>>
             /\ outcome' = [kind |-> "return", results |-> <<r.success, r.error>>, exc |-> NoExc]
    /\ pc' = "done"
    /\ UNCHANGED <<enabled, strict_mode, endpoints, calls, sweep_vars, backend_vars, cache_vars, history, bsf_config>>

MaxPrimaryLen == 2

MaxListLen == 4

MaxMsisdnLen == 3

\* the strings of at most n characters over an alphabet
Strings(alphabet, n) == UNION {[1..k -> alphabet] : k \in 0..n}

\* the characters of the MSISDN fields of a subscriber
MsisdnChars == {"1", "2", "+", ",", " "}

\* _parse_msisdn_list is called
CallParseMsisdnList ==
    /\ pc = "idle"
    /\ \E msisdn \in {None} \cup Strings(MsisdnChars, MaxPrimaryLen),
          msisdn_list \in {None} \cup Strings(MsisdnChars, MaxListLen) :
          /\ op' = "_parse_msisdn_list"
          /\ args' = <<msisdn, msisdn_list>>
          /\ outcome' = [kind |-> "return", results |-> ParseMsisdnList(msisdn, msisdn_list),
                         exc |-> NoExc]
    /\ pc' = "done"
    /\ UNCHANGED <<enabled, strict_mode, endpoints, calls, sweep_vars, backend_vars, cache_vars, history, bsf_config>>

\* the MSISDN of the docstring of msisdn_to_enum_name
DocstringMsisdn == <<"4", "9", "1", "7", "2", "1", "2", "3", "4", "5", "6", "7">>

\* msisdn_to_enum_name is called
CallMsisdnToEnumName ==
    /\ pc = "idle"
    /\ \E msisdn \in Strings({"1", "2", "+"}, MaxMsisdnLen) \cup {DocstringMsisdn, <<"+">> \o DocstringMsisdn},
          domain \in {"e164.arpa", "d"} :
          /\ op' = "msisdn_to_enum_name"
          /\ args' = <<msisdn, domain>>
          /\ outcome' = [kind |-> "return", results |-> MsisdnToEnumName(msisdn, domain),
                         exc |-> NoExc]
    /\ pc' = "done"
    /\ UNCHANGED <<enabled, strict_mode, endpoints, calls, sweep_vars, backend_vars, cache_vars, history, bsf_config>>

HelperNext == CallMakePdnsRequest \/ CallParseMsisdnList \/ CallMsisdnToEnumName

HelperSpec == HelperInit /\ [][HelperNext]_vars

-----------------------------------------------------------------------------
(* The sync operations under any endpoint descriptor and any transport outcome *)

\* the values of the keys an endpoint descriptor may carry beside 'domains'
HeaderValues == [url |-> "u", api_key |-> "k", name |-> "a", sip_domain |-> "ims.a"]

\* endpoint descriptors with any of their keys missing
AnyDescriptors ==
    LET headers == {[k \in keys |-> HeaderValues[k]] : keys \in SUBSET (DOMAIN HeaderValues)}
    IN headers \cup {h @@ [domains |-> ds] : h \in headers, ds \in {<<>>, <<"d">>, <<"d", "e">>}}

\* what requests.patch may do on one call: success, an error status, a timeout
AnyResponses == {HttpResponse(204, ""), HttpResponse(500, "boom"), RequestException("timed out")}

\* a client is constructed with no endpoint or with one endpoint of any shape
AnyInit ==
    /\ enabled \in BOOLEAN
    /\ strict_mode \in BOOLEAN
    /\ endpoints \in {<<>>} \cup {<<e>> : e \in AnyDescriptors}
    /\ pc = "idle"
    /\ op = "none"
    /\ args = <<>>
    /\ outcome = NoOutcome
    /\ calls = <<>>
    /\ NoSweep
    /\ NoBackend
    /\ NoCache

\* create_enum_entries or delete_enum_entries is called
CallCreateOrDelete ==
    /\ pc = "idle"
    /\ \E in \in MsisdnInputs, oracle \in [1..PairCount(endpoints) -> AnyResponses], o \in {"create", "delete"} :
          \E st \in {IF o = "create" THEN CreateEnumEntries(in.msisdn, in.msisdn_list, oracle)
                                     ELSE DeleteEnumEntries(in.msisdn, in.msisdn_list, oracle)} :
             /\ op' = o
             /\ args' = <<in>>
             /\ outcome' = Outcome(st)
             /\ calls' = st.calls
    /\ pc' = "done"
    /\ UNCHANGED <<enabled, strict_mode, endpoints, sweep_vars, backend_vars, cache_vars, history, bsf_config>>

\* update_enum_entries is called
CallUpdate ==
    /\ pc = "idle"
    /\ \E old \in UpdateInputs, new \in UpdateInputs :
          \E old_set \in {Range(ParseMsisdnList(old.msisdn, old.msisdn_list))},
             new_set \in {Range(ParseMsisdnList(new.msisdn, new.msisdn_list))} :
             \E iter_delete \in IterationOrders(SetDifference(old_set, new_set)),
                iter_create \in IterationOrders(SetDifference(new_set, old_set)),
                oracle \in [1..(2 * PairCount(endpoints)) -> AnyResponses] :
                \E st \in {UpdateEnumEntries(old.msisdn, old.msisdn_list,
                                              new.msisdn, new.msisdn_list,
                                              iter_delete, iter_create, oracle)} :
                   /\ op' = "update"
                   /\ args' = <<old, new>>
                   /\ outcome' = Outcome(st)
                   /\ calls' = st.calls
    /\ pc' = "done"
    /\ UNCHANGED <<enabled, strict_mode, endpoints, sweep_vars, backend_vars, cache_vars, history, bsf_config>>

AnyNext == CallCreateOrDelete \/ CallUpdate

AnySpec == AnyInit /\ [][AnyNext]_vars

\* a client is constructed with no endpoint or with one endpoint of any shape,
\* and handed a subscriber source
AnySweepInit ==
    /\ enabled \in BOOLEAN
    /\ strict_mode \in BOOLEAN
    /\ source \in [size : {1, page_size}, raises_at : {NoPage, 1}]
    /\ endpoints \in {<<>>} \cup {<<e>> : e \in AnyDescriptors}
    /\ transport \in [fail_every : {0, 2}]
    /\ pc = "idle"
    /\ op = "none"
    /\ args = <<>>
    /\ outcome = NoOutcome
    /\ calls = <<>>
    /\ source_calls = [count |-> 0, last |-> None]
    /\ page = 0
    /\ subscribers = <<>>
    /\ sub_index = 0
    /\ sweep_results = EmptyDict
    /\ create_result = None
    /\ NoBackend
    /\ NoCache

AnySweepSpec == AnySweepInit /\ [][SweepNext]_vars

-----------------------------------------------------------------------------
(* A subscriber edited: update_enum_entries against backends that hold the
   records of the old numbers *)

\* requests.patch answers 204 on each of n calls
AlwaysSucceeds(n) == [k \in 1..n |-> HttpResponse(204, "")]

\* a client is constructed next to empty backends whose transport never fails
EditInit ==
    /\ enabled \in BOOLEAN
    /\ strict_mode \in BOOLEAN
    /\ endpoints \in ReassertConfigurations
    /\ pc = "idle"
    /\ op = "none"
    /\ args = <<>>
    /\ outcome = NoOutcome
    /\ calls = <<>>
    /\ NoSweep
    /\ NoBackend
    /\ NoCache

\* create_enum_entries is called for the subscriber as first stored and the
\* backends apply its calls
CreateOld ==
    /\ pc = "idle"
    /\ \E old \in UpdateInputs :
          \E st \in {CreateEnumEntries(old.msisdn, old.msisdn_list,
                                       AlwaysSucceeds(PairCount(endpoints)))} :
             /\ op' = "create"
             /\ args' = <<old>>
             /\ outcome' = Outcome(st)
             /\ calls' = st.calls
             /\ backend' = ApplyCalls(backend, st.calls)
    /\ pc' = "created"
    /\ UNCHANGED <<enabled, strict_mode, endpoints, sweep_vars, backend_once, passes,
                   cache_vars, history, bsf_config>>

\* update_enum_entries is called with the stored and the edited numbers and the
\* backends apply its calls
UpdateToNew ==
    /\ pc = "created"
    /\ \E old \in {args[1]}, new \in UpdateInputs :
          LET old_set == Range(ParseMsisdnList(old.msisdn, old.msisdn_list))
              new_set == Range(ParseMsisdnList(new.msisdn, new.msisdn_list))
          IN \E iter_delete \in IterationOrders(SetDifference(old_set, new_set)),
                iter_create \in IterationOrders(SetDifference(new_set, old_set)) :
                \E st \in {UpdateEnumEntries(old.msisdn, old.msisdn_list,
                                              new.msisdn, new.msisdn_list,
                                              iter_delete, iter_create,
                                              AlwaysSucceeds(2 * PairCount(endpoints)))} :
                   /\ op' = "update"
                   /\ args' = <<old, new>>
                   /\ outcome' = Outcome(st)
                   /\ calls' = st.calls
                   /\ backend' = ApplyCalls(backend, st.calls)
    /\ pc' = "done"
    /\ UNCHANGED <<enabled, strict_mode, endpoints, sweep_vars, backend_once, passes,
                   cache_vars, history, bsf_config>>

EditNext == CreateOld \/ UpdateToNew

EditSpec == EditInit /\ [][EditNext]_vars

-----------------------------------------------------------------------------
(* Template cache: the threads that call it *)

Threads == {"t1", "t2", "t3"}

\* a thread that is in no call; op, args and ret are those of the call it finished,
\* queried tells whether that call asked the database
IdleThread == [pc |-> "idle", op |-> "none", args |-> <<>>, local |-> NoValue, ret |-> NoValue,
               queried |-> FALSE]

\* thread t enters a call of operation o at position p
Enter(t, o, a, p) ==
    [threads EXCEPT ![t] = [pc |-> p, op |-> o, args |-> a, local |-> NoValue, ret |-> NoValue,
                            queried |-> FALSE]]

\* thread t returns v from the call it is in
Return(t, v) == [threads EXCEPT ![t].pc = "idle", ![t].ret = v]

\* the variables of the ENUM client while only the template cache is watched
NoClient ==
    /\ enabled = FALSE
    /\ strict_mode = FALSE
    /\ endpoints = <<>>
    /\ pc = "idle"
    /\ op = "none"
    /\ args = <<>>
    /\ outcome = NoOutcome
    /\ calls = <<>>
    /\ NoSweep
    /\ NoBackend

-----------------------------------------------------------------------------
(* Template cache: get_template_cache *)

LogTools == {"log_a", "log_b"}

\* the module is imported: no instance exists
SingletonInit ==
    /\ NoClient
    /\ cache = EmptyDict
    /\ file_loaders = {}
    /\ instance = NoValue
    /\ constructed = 0
    /\ threads = [t \in Threads |-> IdleThread]
    /\ database = EmptyDict
    /\ files = EmptyDict
    /\ history = NoHistory
    /\ bsf_config = EmptyDict

\* the test under the lock left out
InstanceIsNoneUntested == TRUE

\* `if _template_cache_instance is None` under _instance_lock
InstanceIsNone == instance = NoValue

\* get_template_cache is called and makes its first test, outside the lock
CallGetTemplateCache(t) ==
    /\ threads[t].pc = "idle"
    /\ \E logTool \in LogTools :
          threads' = Enter(t, "get_template_cache", <<logTool>>,
                           IF instance = NoValue THEN "instance_lock" ELSE "instance_return")
    /\ UNCHANGED <<instance, constructed>>

\* the block under _instance_lock: the test is made again and the instance constructed
ConstructUnderLock(t) ==
    /\ threads[t].pc = "instance_lock"
    /\ IF InstanceIsNone
       THEN /\ instance' = [kind |-> "instance", id |-> constructed + 1, logTool |-> threads[t].args[1]]
            /\ constructed' = constructed + 1
            /\ threads' = [threads EXCEPT ![t].pc = "instance_return", ![t].local = instance']
       ELSE /\ threads' = [threads EXCEPT ![t].pc = "instance_return"]
            /\ UNCHANGED <<instance, constructed>>

\* `return _template_cache_instance`
ReturnInstance(t) ==
    /\ threads[t].pc = "instance_return"
    /\ threads' = Return(t, instance)
    /\ UNCHANGED <<instance, constructed>>

SingletonNext ==
    /\ \E t \in Threads : CallGetTemplateCache(t) \/ ConstructUnderLock(t) \/ ReturnInstance(t)
    /\ UNCHANGED <<enabled, strict_mode, endpoints, pc, op, args, outcome, calls, sweep_vars,
                   backend_vars, cache, file_loaders, database, files, history, bsf_config>>

SingletonSpec == SingletonInit /\ [][SingletonNext]_vars

-----------------------------------------------------------------------------
(* Template cache: IfcTemplateCache *)

TemplateIds == {1, 2}

TemplatePaths == {"a.xml", "default_ifc.xml"}

\* IfcTemplateCache._get_cache_key_db
CacheKeyDb(template_id) == <<"db:", ToString(template_id)>>

\* IfcTemplateCache._get_cache_key_file
CacheKeyFile(file_path) == <<"file:", file_path>>

\* template text that jinja2 refuses to compile
BadSource == "{% bad"

\* jinja2.Template(content), for content that compiles
Template(content) == [kind |-> "template", content |-> content]

\* what database.GetObj(IFC_TEMPLATE, id) may do: return the row, return nothing, raise
DbRows == {[kind |-> "row", template_content |-> "db ifc"],
           [kind |-> "row", template_content |-> BadSource],
           [kind |-> "missing"],
           [kind |-> "raises"]}

\* what the search path may hold under a file name
FileStates == {[kind |-> "file", content |-> "file ifc"],
               [kind |-> "file", content |-> BadSource],
               [kind |-> "missing"]}

\* the row or file compiles to a template
Loads(found) ==
    /\ found.kind \in {"row", "file"}
    /\ (IF found.kind = "row" THEN found.template_content ELSE found.content) # BadSource

\* the template a row or file that loads compiles to
Compiled(found) ==
    Template(IF found.kind = "row" THEN found.template_content ELSE found.content)

\* a cache is constructed next to a database and a search path
CacheInit ==
    /\ NoClient
    /\ cache = EmptyDict
    /\ file_loaders = {}
    /\ instance = NoValue
    /\ constructed = 0
    /\ threads = [t \in {"t1", "t2"} |-> IdleThread]
    /\ database \in {d \in [TemplateIds -> DbRows] : Loads(d[2])}
    /\ files \in {f \in [TemplatePaths -> FileStates] : Loads(f["a.xml"])}
    /\ history = NoHistory
    /\ bsf_config = EmptyDict

\* the arguments of get_template: the configured use_database (False when not
\* configured), the subscriber's ifc_template_id (0 for a missing, None or zero
\* id: all are falsy) and ifc_path ("" for a missing, None or empty path), and
\* whether a database was handed over
GetTemplateArgs ==
    [use_database : BOOLEAN, ifc_template_id : {0, 1}, ifc_path : {"", "a.xml"},
     database : BOOLEAN]

\* the database branch taken whenever an id and a database are given
TakesDatabaseUnconfigured(a) == a.ifc_template_id # 0 /\ a.database

\* `if use_database:` and `if template_id and database:` of get_template
TakesDatabase(a) == a.use_database /\ a.ifc_template_id # 0 /\ a.database

\* `subscriber_details.get('ifc_path') or default_template_path`, under the
\* default default_template_path
FilePath(a) == IF a.ifc_path # "" THEN a.ifc_path ELSE "default_ifc.xml"

\* get_template is called and chooses its source
CallGetTemplate(t) ==
    /\ threads[t].pc = "idle"
    /\ \E a \in GetTemplateArgs :
          threads' = Enter(t, "get_template", a,
                           IF TakesDatabase(a) THEN "db_check" ELSE "file_check")
    /\ UNCHANGED <<cache, file_loaders>>

\* get_template_from_db or get_template_from_file is called directly
CallGetTemplateFrom(t) ==
    /\ threads[t].pc = "idle"
    /\ \/ \E id \in TemplateIds :
             threads' = Enter(t, "get_template_from_db", [ifc_template_id |-> id], "db_check")
       \/ \E path \in TemplatePaths :
             threads' = Enter(t, "get_template_from_file", [ifc_path |-> path], "file_check")
    /\ UNCHANGED <<cache, file_loaders>>

\* the file path a thread in get_template_from_file works on
PathOf(t) ==
    IF threads[t].op = "get_template" THEN FilePath(threads[t].args) ELSE threads[t].args.ifc_path

\* the lookup left out: every call loads
DbCheckAlwaysMiss(t) ==
    /\ threads[t].pc = "db_check"
    /\ threads' = [threads EXCEPT ![t].pc = "db_load"]
    /\ UNCHANGED <<cache, file_loaders>>

\* get_template_from_db, the cache lookup under the lock
DbCheck(t) ==
    /\ threads[t].pc = "db_check"
    /\ \E key \in {CacheKeyDb(threads[t].args.ifc_template_id)} :
          threads' = IF key \in DOMAIN cache
                     THEN Return(t, cache[key])
                     ELSE [threads EXCEPT ![t].pc = "db_load"]
    /\ UNCHANGED <<cache, file_loaders>>

\* get_template_from_db, the load outside the lock: a load that fails returns
\* None, after which get_template falls back to the file
DbLoad(t) ==
    /\ threads[t].pc = "db_load"
    /\ \E row \in {database[threads[t].args.ifc_template_id]} :
          threads' = IF Loads(row)
                     THEN [threads EXCEPT ![t].pc = "db_store", ![t].local = Compiled(row),
                                          ![t].queried = TRUE]
                     ELSE IF threads[t].op = "get_template"
                     THEN [threads EXCEPT ![t].pc = "file_check", ![t].queried = TRUE]
                     ELSE [threads EXCEPT ![t].pc = "idle", ![t].queried = TRUE]
    /\ UNCHANGED <<cache, file_loaders>>

\* get_template_from_db, the insertion under the lock
DbStore(t) ==
    /\ threads[t].pc = "db_store"
    /\ cache' = DictPut(cache, CacheKeyDb(threads[t].args.ifc_template_id), threads[t].local)
    /\ threads' = Return(t, threads[t].local)
    /\ UNCHANGED file_loaders

\* get_template_from_file, the cache lookup under the lock
FileCheck(t) ==
    /\ threads[t].pc = "file_check"
    /\ \E key \in {CacheKeyFile(PathOf(t))} :
          threads' = IF key \in DOMAIN cache
                     THEN Return(t, cache[key])
                     ELSE [threads EXCEPT ![t].pc = "file_load"]
    /\ UNCHANGED <<cache, file_loaders>>

\* get_template_from_file, the load outside the lock
FileLoad(t) ==
    /\ threads[t].pc = "file_load"
    /\ file_loaders' = file_loaders \cup {"../"}
    /\ \E file \in {files[PathOf(t)]} :
          threads' = IF Loads(file)
                     THEN [threads EXCEPT ![t].pc = "file_store", ![t].local = Compiled(file)]
                     ELSE [threads EXCEPT ![t].pc = "idle"]
    /\ UNCHANGED cache

\* get_template_from_file, the insertion under the lock
FileStore(t) ==
    /\ threads[t].pc = "file_store"
    /\ cache' = DictPut(cache, CacheKeyFile(PathOf(t)), threads[t].local)
    /\ threads' = Return(t, threads[t].local)
    /\ UNCHANGED file_loaders

\* the whole cache dropped
DeleteEveryKey(c, cache_key) == EmptyDict

\* `del self._cache[cache_key]`
DeleteKey(c, cache_key) == [k \in (DOMAIN c) \ {cache_key} |-> c[k]]

\* the calls that end in invalidate, with the cache key each computes
InvalidateCalls ==
    {[op |-> "invalidate", cache_key |-> key] :
        key \in {CacheKeyDb(1), <<"db:">>}}
    \cup {[op |-> "invalidate_db_template", template_id |-> id, cache_key |-> CacheKeyDb(id)] :
             id \in {2}}
    \cup {[op |-> "invalidate_file_template", file_path |-> path, cache_key |-> CacheKeyFile(path)] :
             path \in {"default_ifc.xml"}}

\* invalidate, called directly or by invalidate_db_template or
\* invalidate_file_template: the block under the lock
Invalidate(t) ==
    /\ threads[t].pc = "idle"
    /\ \E call \in InvalidateCalls :
          /\ threads' = [threads EXCEPT ![t] =
                            [IdleThread EXCEPT !.op = call.op, !.args = call,
                                !.ret = [kind |-> "bool", value |-> call.cache_key \in DOMAIN cache]]]
          /\ cache' = IF call.cache_key \in DOMAIN cache
                      THEN DeleteKey(cache, call.cache_key)
                      ELSE cache
    /\ UNCHANGED file_loaders

\* invalidate_all: the block under the lock
InvalidateAll(t) ==
    /\ threads[t].pc = "idle"
    /\ threads' = [threads EXCEPT ![t] =
                      [IdleThread EXCEPT !.op = "invalidate_all",
                          !.ret = [kind |-> "int", value |-> Cardinality(DOMAIN cache)]]]
    /\ cache' = EmptyDict
    /\ UNCHANGED file_loaders

CacheNext ==
    /\ \E t \in DOMAIN threads :
          \/ CallGetTemplate(t) \/ CallGetTemplateFrom(t)
          \/ DbCheck(t) \/ DbLoad(t) \/ DbStore(t)
          \/ FileCheck(t) \/ FileLoad(t) \/ FileStore(t)
          \/ Invalidate(t) \/ InvalidateAll(t)
    /\ UNCHANGED <<enabled, strict_mode, endpoints, pc, op, args, outcome, calls, sweep_vars,
                   backend_vars, instance, constructed, database, files, history, bsf_config>>

CacheSpec == CacheInit /\ [][CacheNext]_vars

\* a cache used by one thread, next to any database and search path
SequentialInit ==
    /\ NoClient
    /\ cache = EmptyDict
    /\ file_loaders = {}
    /\ instance = NoValue
    /\ constructed = 0
    /\ threads = [t \in {"t1"} |-> IdleThread]
    /\ database \in [TemplateIds -> DbRows]
    /\ files \in [TemplatePaths -> FileStates]
    /\ history = NoHistory
    /\ bsf_config = EmptyDict

SequentialSpec == SequentialInit /\ [][CacheNext]_vars

-----------------------------------------------------------------------------
(* Template cache: a template edited in the database while the cache is in use *)

\* the content the row is edited to
EditedContent == "db ifc edited"

\* a cache is constructed next to a database whose templates all load
InvalidationInit ==
    /\ NoClient
    /\ cache = EmptyDict
    /\ file_loaders = {}
    /\ instance = NoValue
    /\ constructed = 0
    /\ threads = [t \in {"t1", "t2"} |-> IdleThread]
    /\ database = [id \in TemplateIds |-> [kind |-> "row", template_content |-> "db ifc"]]
    /\ files = [path \in TemplatePaths |-> [kind |-> "missing"]]
    /\ history = NoHistory
    /\ bsf_config = EmptyDict

\* get_template_from_db(1) is called; history.later collects the threads whose
\* call began after an invalidation that followed the edit
CallGetTemplateFromDb(t) ==
    /\ threads[t].pc = "idle"
    /\ \E id \in {1} :
          /\ threads' = Enter(t, "get_template_from_db", [ifc_template_id |-> id], "db_check")
          /\ history' = [history EXCEPT !.later = IF id \in history.invalidated
                                                  THEN @ \cup {t}
                                                  ELSE @ \ {t}]
    /\ UNCHANGED <<cache, file_loaders, database>>

\* invalidate_db_template(1) runs: invalidate's block under the lock;
\* history.invalidated records that it ran after the edit
CallInvalidateDbTemplate(t) ==
    /\ threads[t].pc = "idle"
    /\ \E id \in {1} :
          \E call \in {[op |-> "invalidate_db_template", template_id |-> id,
                        cache_key |-> CacheKeyDb(id)]} :
             /\ threads' = [threads EXCEPT ![t] =
                               [IdleThread EXCEPT !.op = call.op, !.args = call,
                                   !.ret = [kind |-> "bool", value |-> call.cache_key \in DOMAIN cache]]]
             /\ cache' = IF call.cache_key \in DOMAIN cache
                         THEN DeleteKey(cache, call.cache_key)
                         ELSE cache
             /\ history' = [history EXCEPT !.invalidated = IF id \in history.changed
                                                            THEN @ \cup {id}
                                                            ELSE @]
    /\ UNCHANGED <<file_loaders, database>>

\* the row of template 1 is edited in the database, once
ChangeTemplate ==
    /\ \E id \in {1} :
          /\ id \notin history.changed
          /\ database' = [database EXCEPT ![id] = [kind |-> "row", template_content |-> EditedContent]]
          /\ history' = [history EXCEPT !.changed = @ \cup {id}]
    /\ UNCHANGED <<cache, file_loaders, threads>>

InvalidationNext ==
    /\ \/ \E t \in DOMAIN threads : CallGetTemplateFromDb(t) \/ CallInvalidateDbTemplate(t)
       \/ \E t \in DOMAIN threads :
             /\ DbCheck(t) \/ DbLoad(t) \/ DbStore(t)
             /\ UNCHANGED <<database, history>>
       \/ ChangeTemplate
    /\ UNCHANGED <<enabled, strict_mode, endpoints, pc, op, args, outcome, calls, sweep_vars,
                   backend_vars, instance, constructed, files, bsf_config>>

InvalidationSpec == InvalidationInit /\ [][InvalidationNext]_vars

-----------------------------------------------------------------------------
(* Zn interface: ZnInterface *)

MaxNafGroups == 2

MaxRandLen == 4

MaxIdLen == 2

NafHostnames == {"naf1", "naf2"}

\* a NAF group of the configuration, with or without its naf_hostnames list
NafGroups ==
    {[name |-> "g"]} \cup
    {[name |-> "g", naf_hostnames |-> hs] : hs \in {<<>>, <<"naf1">>, <<"naf2">>, <<"naf1", "naf2">>}}

\* config['hss']['bsf'] with any of its keys missing
BsfConfigs ==
    LET groups == UNION {[1..k -> NafGroups] : k \in 0..MaxNafGroups}
        hosts == {EmptyDict, [bsf_hostname |-> <<"bsf.cfg">>]}
    IN hosts \cup {h @@ [naf_groups |-> gs] : h \in hosts, gs \in groups}

\* a ZnInterface is constructed
ZnInit ==
    /\ NoClient
    /\ cache = EmptyDict
    /\ file_loaders = {}
    /\ instance = NoValue
    /\ constructed = 0
    /\ threads = <<>>
    /\ database = EmptyDict
    /\ files = EmptyDict
    /\ history = NoHistory
    /\ bsf_config \in BsfConfigs

RECURSIVE InSomeGroup(_, _)

\* only the first group looked at
InFirstGroup(groups, naf_hostname) ==
    groups # <<>> /\ naf_hostname \in Range(DictGet(Head(groups), "naf_hostnames", <<>>))

\* `for group in naf_groups` of validate_naf_authorization
InSomeGroup(groups, naf_hostname) ==
    IF groups = <<>> THEN FALSE
    ELSE IF naf_hostname \in Range(DictGet(Head(groups), "naf_hostnames", <<>>)) THEN TRUE
    ELSE InSomeGroup(Tail(groups), naf_hostname)

\* ZnInterface.validate_naf_authorization
ValidateNafAuthorization(naf_hostname) ==
    InSomeGroup(DictGet(bsf_config, "naf_groups", <<>>), naf_hostname)

\* validate_naf_authorization is called
CallValidateNafAuthorization ==
    /\ pc = "idle"
    /\ \E naf_hostname \in NafHostnames \cup {"naf3"} :
          /\ op' = "validate_naf_authorization"
          /\ args' = <<naf_hostname>>
          /\ outcome' = [kind |-> "return", results |-> ValidateNafAuthorization(naf_hostname),
                         exc |-> NoExc]
    /\ pc' = "done"
    /\ UNCHANGED <<enabled, strict_mode, endpoints, calls, sweep_vars, backend_vars, cache_vars, history, bsf_config>>

\* code points of the characters used in identifiers
Ord == [a |-> 97, b |-> 98]

\* str.encode('utf-8') of an ASCII string
Utf8Encode(s) == [i \in DOMAIN s |-> Ord[s[i]]]

\* b'gba-me'
GbaMe == <<103, 98, 97, 45, 109, 101>>

\* hashlib.sha256(...).digest(), taken as collision-free
Sha256(input) == [sha256 |-> input]

\* ZnInterface.derive_ks_naf
DeriveKsNaf(ck, ik, naf_id, impi) ==
    LET ks == ck \o ik
        kdf_input == ks \o GbaMe \o Utf8Encode(naf_id) \o Utf8Encode(impi)
    IN Sha256(kdf_input)

\* CK and IK, shortened to two bytes
Keys == {<<1, 2>>, <<254, 255>>}

\* non-empty NAF identifiers and private identities
Identifiers == Strings({"a", "b"}, MaxIdLen) \ {<<>>}

\* derive_ks_naf is called
CallDeriveKsNaf ==
    /\ pc = "idle"
    /\ \E ck \in Keys, ik \in Keys, naf_id \in Identifiers, impi \in Identifiers :
          /\ op' = "derive_ks_naf"
          /\ args' = <<ck, ik, naf_id, impi>>
          /\ outcome' = [kind |-> "return", results |-> DeriveKsNaf(ck, ik, naf_id, impi),
                         exc |-> NoExc]
    /\ pc' = "done"
    /\ UNCHANGED <<enabled, strict_mode, endpoints, calls, sweep_vars, backend_vars, cache_vars, history, bsf_config>>

\* the Base64 alphabet
B64Alphabet ==
    <<"A", "B", "C", "D", "E", "F", "G", "H", "I", "J", "K", "L", "M", "N", "O", "P",
      "Q", "R", "S", "T", "U", "V", "W", "X", "Y", "Z", "a", "b", "c", "d", "e", "f",
      "g", "h", "i", "j", "k", "l", "m", "n", "o", "p", "q", "r", "s", "t", "u", "v",
      "w", "x", "y", "z", "0", "1", "2", "3", "4", "5", "6", "7", "8", "9", "+", "/">>

\* the k-th six-bit digit, from the left, of a 24-bit group
B64Digit(n, k) == B64Alphabet[((n \div (64 ^ (4 - k))) % 64) + 1]

RECURSIVE B64Encode(_)
\* base64.b64encode(rand).decode('ascii')
B64Encode(bytes) ==
    IF Len(bytes) = 0 THEN <<>>
    ELSE IF Len(bytes) = 1
    THEN LET n == bytes[1] * 65536
         IN <<B64Digit(n, 1), B64Digit(n, 2), "=", "=">>
    ELSE IF Len(bytes) = 2
    THEN LET n == bytes[1] * 65536 + bytes[2] * 256
         IN <<B64Digit(n, 1), B64Digit(n, 2), B64Digit(n, 3), "=">>
    ELSE LET n == bytes[1] * 65536 + bytes[2] * 256 + bytes[3]
         IN <<B64Digit(n, 1), B64Digit(n, 2), B64Digit(n, 3), B64Digit(n, 4)>>
                \o B64Encode(SubSeq(bytes, 4, Len(bytes)))

DefaultBsfHostname == <<"bsf.epc.mnc001.mcc001.3gppnetwork.org">>

\* the configured name wins over the argument
BsfHostnameConfiguredFirst(bsf_hostname) ==
    IF "bsf_hostname" \in DOMAIN bsf_config THEN bsf_config.bsf_hostname
    ELSE IF bsf_hostname = None THEN DefaultBsfHostname
    ELSE bsf_hostname

\* `if bsf_hostname is None` of generate_btid
BsfHostname(bsf_hostname) ==
    IF bsf_hostname = None
    THEN DictGet(bsf_config, "bsf_hostname", DefaultBsfHostname)
    ELSE bsf_hostname

\* ZnInterface.generate_btid
GenerateBtid(rand, bsf_hostname) ==
    B64Encode(rand) \o <<"@">> \o BsfHostname(bsf_hostname)

RandBytes == {0, 77, 255}

\* generate_btid is called
CallGenerateBtid ==
    /\ pc = "idle"
    /\ \E rand \in Strings(RandBytes, MaxRandLen), bsf_hostname \in {None, <<>>, <<"bsf.arg">>} :
          /\ op' = "generate_btid"
          /\ args' = <<rand, bsf_hostname>>
          /\ outcome' = [kind |-> "return", results |-> GenerateBtid(rand, bsf_hostname),
                         exc |-> NoExc]
    /\ pc' = "done"
    /\ UNCHANGED <<enabled, strict_mode, endpoints, calls, sweep_vars, backend_vars, cache_vars, history, bsf_config>>

ZnNext ==
    \/ CallValidateNafAuthorization
    \/ CallGenerateBtid
    \/ CallDeriveKsNaf

ZnSpec == ZnInit /\ [][ZnNext]_vars

-----------------------------------------------------------------------------
(* Properties of the sync operations *)

Done == pc = "done"

Returned == Done /\ outcome.kind = "return"

Raised == Done /\ outcome.kind = "raise"

Lenient == ~strict_mode

\* the parsed MSISDNs of the k-th (msisdn, msisdn_list) argument pair of the call
ParsedArg(k) == ParseMsisdnList(args[k].msisdn, args[k].msisdn_list)

\* the (endpoint index, domain) pairs of the configuration: endpoints in configured
\* order and, within an endpoint, its domains in configured order
RECURSIVE FlatPairs(_, _)
FlatPairs(eps, ei) ==
    IF ei > Len(eps) THEN <<>>
    ELSE LET ds == IF "domains" \in DOMAIN eps[ei] THEN eps[ei].domains ELSE <<>>
         IN [j \in 1..Len(ds) |-> [endpoint |-> ei, zone |-> ds[j]]] \o FlatPairs(eps, ei + 1)

ConfiguredPairs == FlatPairs(endpoints, 1)

\* the i-th transport call went to the i-th configured pair
FollowsConfiguredOrder ==
    /\ Len(calls) <= Len(ConfiguredPairs)
    /\ \A i \in 1..Len(calls) :
          /\ calls[i].endpoint = ConfiguredPairs[i].endpoint
          /\ calls[i].zone = ConfiguredPairs[i].zone

FailedCalls == SelectSeq(calls, LAMBDA c : ~c.success)

\* the name an endpoint goes by in results and error entries
NameOf(ei) ==
    IF "name" \in DOMAIN endpoints[ei] THEN endpoints[ei].name
    ELSE IF "url" \in DOMAIN endpoints[ei] THEN endpoints[ei].url
    ELSE "unknown"

\* '<endpoint>/<domain>: <detail>' for a failed transport call
IsErrorEntryOf(entry, c) ==
    /\ Len(entry) > 4
    /\ entry[1] = NameOf(c.endpoint)
    /\ entry[2] = "/"
    /\ entry[3] = c.zone
    /\ entry[4] = ": "
    /\ c.response.text = Last(entry)
    /\ c.response.kind = "http" => ToString(c.response.status_code) \in Range(entry)

IsDeleteCall(c) == \A i \in DOMAIN c.rrsets : c.rrsets[i].changetype = "DELETE"

IsReplaceCall(c) == \A i \in DOMAIN c.rrsets : c.rrsets[i].changetype = "REPLACE"

\* C1: with the engine disabled, create, delete and update return a result with
\* status 'disabled' and make no transport call, whatever the MSISDN input, the
\* strict-mode setting and the endpoint configuration.
C1_DisabledShortCircuit ==
    (Done /\ ~enabled) =>
        /\ outcome.kind = "return"
        /\ outcome.results = [status |-> "disabled"]
        /\ calls = <<>>

C1_Witness ==
    /\ Done /\ ~enabled /\ strict_mode
    /\ op = "update"
    /\ Len(ConfiguredPairs) >= 2
    /\ ParsedArg(1) # <<>> /\ Range(ParsedArg(1)) # Range(ParsedArg(2))
    /\ outcome.results = [status |-> "disabled"]

\* C2: in strict mode a create or delete call makes its transport calls in
\* configured pair order and stops at the first failing one: every call before the
\* last succeeded, and the call either failed on its last transport call or went
\* through every configured pair.
C2_StrictStopsAtFirstFailure ==
    (Done /\ strict_mode /\ op \in {"create", "delete"}) =>
        /\ FollowsConfiguredOrder
        /\ \A i \in 1..Len(calls) : ~calls[i].success => i = Len(calls)
        /\ (enabled /\ ParsedArg(1) # <<>>) =>
              \/ Len(calls) = Len(ConfiguredPairs)
              \/ (calls # <<>> /\ ~Last(calls).success)

C2_Witness ==
    /\ Done /\ strict_mode /\ op = "delete"
    /\ Len(ConfiguredPairs) = 3
    /\ Len(calls) = 2
    /\ calls[1].success /\ ~calls[2].success

\* C3: in strict mode, with the engine enabled and a non-empty MSISDN set, a create
\* call with a failed transport call raises ENUMManagementError (no result reaches
\* the caller), and a create call without one returns status 'ok'.
C3_StrictCreateRaises ==
    (Done /\ strict_mode /\ op = "create" /\ enabled /\ ParsedArg(1) # <<>>) =>
        IF FailedCalls # <<>>
        THEN /\ outcome.kind = "raise"
             /\ outcome.exc.type = "ENUMManagementError"
             /\ Head(outcome.exc.msg) = "ENUM creation failed: "
             /\ IsErrorEntryOf(Tail(outcome.exc.msg), Last(calls))
        ELSE /\ outcome.kind = "return"
             /\ outcome.results.status = "ok"

C3_Witness ==
    /\ Raised /\ strict_mode /\ op = "create"
    /\ Len(calls) = 2
    /\ outcome.exc.type = "ENUMManagementError"

\* C4: in lenient mode create and delete return 'partial' exactly when a transport
\* call failed (and 'ok' otherwise), and the error list holds one entry
\* '<endpoint>/<domain>: <detail>' per failed transport call, in attempt order, and
\* nothing else.
C4_LenientPartial ==
    (Done /\ Lenient /\ op \in {"create", "delete"} /\ enabled /\ ParsedArg(1) # <<>>) =>
        /\ outcome.kind = "return"
        /\ outcome.results.status = (IF FailedCalls # <<>> THEN "partial" ELSE "ok")
        /\ Len(outcome.results.errors) = Len(FailedCalls)
        /\ \A k \in 1..Len(FailedCalls) :
              IsErrorEntryOf(outcome.results.errors[k], FailedCalls[k])

C4_Witness ==
    /\ Returned /\ Lenient /\ op = "create"
    /\ Len(endpoints) = 2
    /\ Len(calls) = 2
    /\ ~calls[1].success /\ calls[2].success
    /\ outcome.results.status = "partial"
    /\ Len(outcome.results.errors) = 1

\* the error list of a returned result (results of the short-circuits carry none)
ErrorsOf(results) == IF "errors" \in DOMAIN results THEN results.errors ELSE <<>>

\* C5, as stated: a returned result has status 'ok' if and only if its error list
\* is empty and at least one transport attempt was made during the call.
C5_OkIffNoErrorAndAttempt ==
    Returned =>
        (outcome.results.status = "ok"
            <=> (ErrorsOf(outcome.results) = <<>> /\ calls # <<>>))

\* C5, amended: a returned result that carries an error list (any result other than
\* the 'disabled' and 'no_msisdns' short-circuits) has status 'ok' if and only if
\* that list is empty, and 'partial' otherwise; a call that makes no transport
\* attempt returns 'ok' too.
C5_OkIffNoError ==
    Returned =>
        IF "errors" \in DOMAIN outcome.results
        THEN /\ outcome.results.status = "ok" <=> outcome.results.errors = <<>>
             /\ outcome.results.status = "partial" <=> outcome.results.errors # <<>>
             /\ enabled
        ELSE /\ outcome.results.status \in {"disabled", "no_msisdns"}
             /\ calls = <<>>

C5_Witness ==
    /\ Returned /\ enabled /\ op = "create"
    /\ endpoints # <<>> /\ ConfiguredPairs = <<>>
    /\ ParsedArg(1) # <<>>
    /\ calls = <<>>
    /\ outcome.results.status = "ok"

\* C6: in lenient mode a create or delete call with a non-empty MSISDN set makes
\* exactly one transport call per configured (endpoint, domain) pair, the i-th call
\* going to the i-th pair in configured order (no retry, no pair skipped).
C6_LenientOneCallPerPair ==
    (Done /\ Lenient /\ op \in {"create", "delete"} /\ enabled /\ ParsedArg(1) # <<>>) =>
        /\ Len(calls) = Len(ConfiguredPairs)
        /\ FollowsConfiguredOrder

C6_Witness ==
    /\ Done /\ Lenient /\ op = "delete"
    /\ Len(endpoints) = 1
    /\ Len(calls) = 3
    /\ ~calls[1].success /\ calls[2].success /\ ~calls[3].success
    /\ calls[1].zone # calls[2].zone

\* C7, as stated: after a lenient create or delete returns, the result tree holds
\* for every attempted (endpoint, domain) pair the success flag of that pair's
\* transport call and the MSISDN set attempted.
C7_TreeHoldsEveryAttempt ==
    (Returned /\ Lenient /\ op \in {"create", "delete"}) =>
        \A i \in 1..Len(calls) :
            LET name == NameOf(calls[i].endpoint)
                tree == outcome.results.endpoints
            IN /\ name \in DOMAIN tree
               /\ calls[i].zone \in DOMAIN tree[name].domains
               /\ tree[name].domains[calls[i].zone].success = calls[i].success
               /\ tree[name].domains[calls[i].zone].msisdns = ParsedArg(1)

\* the parsed old and new MSISDN sets of an update
OldSet == Range(ParsedArg(1))
NewSet == Range(ParsedArg(2))

\* the record names a transport call mutates
NamesOf(c) == {c.rrsets[i].name : i \in DOMAIN c.rrsets}

\* the record names of a set of MSISDNs in a zone
RecordNames(msisdns, zone) == {MsisdnToEnumName(m, zone) \o <<".">> : m \in msisdns}

\* C8: every transport call of an update is either a DELETE call carrying one
\* mutation for each MSISDN of old minus new, or a REPLACE call carrying one for each
\* MSISDN of new minus old, and nothing else; a lenient update sends the DELETE
\* calls iff old minus new is not empty and the REPLACE calls iff new minus old is
\* not empty (given a configured pair).
C8_UpdateSendsDifferences ==
    (Done /\ op = "update") =>
        /\ \A i \in 1..Len(calls) :
              \/ /\ IsDeleteCall(calls[i])
                 /\ NamesOf(calls[i]) = RecordNames(OldSet \ NewSet, calls[i].zone)
                 /\ Len(calls[i].rrsets) = Cardinality(OldSet \ NewSet)
              \/ /\ IsReplaceCall(calls[i])
                 /\ NamesOf(calls[i]) = RecordNames(NewSet \ OldSet, calls[i].zone)
                 /\ Len(calls[i].rrsets) = Cardinality(NewSet \ OldSet)
        /\ (enabled /\ Lenient /\ ConfiguredPairs # <<>>) =>
              /\ (\E i \in 1..Len(calls) : IsDeleteCall(calls[i])) <=> OldSet \ NewSet # {}
              /\ (\E i \in 1..Len(calls) : IsReplaceCall(calls[i])) <=> NewSet \ OldSet # {}

C8_Witness ==
    /\ Done /\ op = "update"
    /\ OldSet \cap NewSet # {}
    /\ \E i \in 1..Len(calls) : IsDeleteCall(calls[i])
    /\ \E i \in 1..Len(calls) : IsReplaceCall(calls[i])

\* C9: when the parsed old and new MSISDN sets of an update are equal, update makes
\* no transport call and reports no deleted, created or error entry.
C9_EqualSetsNoOp ==
    (Done /\ op = "update" /\ OldSet = NewSet) =>
        /\ calls = <<>>
        /\ outcome.kind = "return"
        /\ enabled => outcome.results =
              [status |-> "ok", deleted |-> <<>>, created |-> <<>>, errors |-> <<>>]

C9_Witness ==
    /\ Done /\ op = "update" /\ enabled
    /\ OldSet = NewSet /\ OldSet # {}
    /\ ParsedArg(1) # ParsedArg(2)
    /\ args[1].msisdn # args[2].msisdn
    /\ ConfiguredPairs # <<>>
    /\ outcome.results.status = "ok"

\* C10: in strict mode, when a transport call of the delete phase of an update
\* fails, update raises ENUMManagementError and makes no further transport call: no
\* create-phase call is made.
C10_StrictDeleteFailureSkipsCreate ==
    (Done /\ op = "update" /\ strict_mode) =>
        \A i \in 1..Len(calls) :
            (IsDeleteCall(calls[i]) /\ ~calls[i].success) =>
                /\ outcome.kind = "raise"
                /\ outcome.exc.type = "ENUMManagementError"
                /\ i = Len(calls)
                /\ \A k \in 1..Len(calls) : ~IsReplaceCall(calls[k])

C10_Witness ==
    /\ Raised /\ op = "update" /\ strict_mode
    /\ NewSet \ OldSet # {}
    /\ Len(calls) = 2
    /\ IsDeleteCall(calls[2]) /\ ~calls[2].success

\* C11: a lenient update never raises; every transport call of its delete phase
\* comes before every call of its create phase; its error list holds one entry for
\* each failed call, in the order of the calls (delete-phase errors, then
\* create-phase errors); its status is 'partial' iff that list is not empty, and
\* 'ok' otherwise.
C11_LenientUpdateMerges ==
    (Done /\ op = "update" /\ enabled /\ Lenient) =>
        /\ outcome.kind = "return"
        /\ \A i, j \in 1..Len(calls) :
              (i < j /\ IsReplaceCall(calls[i])) => ~IsDeleteCall(calls[j])
        /\ Len(outcome.results.errors) = Len(FailedCalls)
        /\ \A k \in 1..Len(FailedCalls) :
              IsErrorEntryOf(outcome.results.errors[k], FailedCalls[k])
        /\ outcome.results.status =
              IF outcome.results.errors # <<>> THEN "partial" ELSE "ok"

C11_Witness ==
    /\ Returned /\ op = "update" /\ enabled /\ Lenient
    /\ Len(FailedCalls) = 2
    /\ IsDeleteCall(FailedCalls[1]) /\ IsReplaceCall(FailedCalls[2])
    /\ FailedCalls[1].zone # FailedCalls[2].zone
    /\ \E i \in 1..Len(calls) : calls[i].success /\ IsDeleteCall(calls[i])
    /\ outcome.results.status = "partial"

\* C12: with the engine enabled, a create, delete or update whose parsed MSISDN
\* input is empty (for update: both the old and the new input) returns status
\* 'no_msisdns' and makes no transport call.
C12_EmptyInputShortCircuits ==
    (Done /\ enabled /\ \A k \in 1..Len(args) : ParsedArg(k) = <<>>) =>
        /\ outcome.kind = "return"
        /\ outcome.results.status = "no_msisdns"
        /\ calls = <<>>

-----------------------------------------------------------------------------
(* Properties of the reconciliation driver *)

\* a sweep of an enabled engine has ended
SweepDone == pc = "done" /\ op = "reconcile_all" /\ enabled

\* the source holds source.size subscribers and never raises
WellBehavedStore == source.size # Endless /\ source.raises_at = NoPage

CeilDiv(a, b) == (a + b - 1) \div b

\* the subscribers for whom the first transport call fails
FailingSubscribers ==
    {k \in 1..source.size :
        /\ transport.fail_every > 0 /\ k % transport.fail_every = 0
        /\ ConfiguredPairs # <<>>
        /\ ParseMsisdnList(SubscriberAt(k).msisdn, SubscriberAt(k).msisdn_list) # <<>>}

\* C13: reconcile_all asks for the pages 0, 1, 2, ... in increasing order with page
\* size 100; over a source holding N subscribers it stops at the first empty page,
\* after exactly ceil(N/100)+1 calls of the source; a non-empty page shorter than
\* 100 does not end the sweep.
C13_PagesUntilEmpty ==
    /\ (op = "reconcile_all" /\ source_calls.count > 0) =>
          /\ source_calls.last.page = source_calls.count - 1
          /\ source_calls.last.page_size = 100
    /\ (SweepDone /\ WellBehavedStore) =>
          /\ source_calls.count = CeilDiv(source.size, 100) + 1
          /\ page = CeilDiv(source.size, 100)
    /\ (SweepDone /\ source.size = Endless /\ source.raises_at = NoPage) =>
          page > PageCeiling

C13_Witness ==
    /\ SweepDone /\ WellBehavedStore
    /\ source.size = 250
    /\ source_calls.count = 4
    /\ sweep_results.processed = 250

\* C14: over a source holding N subscribers, a create that fails for one subscriber
\* (a raised ENUMManagementError in strict mode, a 'partial' result in lenient
\* mode) does not stop the sweep: on return processed = N and every failing
\* subscriber is counted in failed.
C14_FailureDoesNotStopSweep ==
    (SweepDone /\ WellBehavedStore) =>
        /\ outcome.kind = "return"
        /\ outcome.results.processed = source.size
        /\ outcome.results.failed = Cardinality(FailingSubscribers)
        /\ FailingSubscribers # {} => outcome.results.failed >= 1

C14_Witness ==
    /\ SweepDone /\ WellBehavedStore /\ strict_mode
    /\ 37 \in FailingSubscribers
    /\ source.size > 37
    /\ outcome.results.processed = source.size
    /\ outcome.results.failed >= 1
    /\ outcome.results.errors.len >= 1

\* C15: reconcile_all calls the subscriber source at most 10,000 times in one
\* sweep, whatever the source returns.
C15_AtMostTenThousandPages == source_calls.count <= 10000

\* the source raised on the last call made to it
SourceRaised ==
    /\ source_calls.count > 0
    /\ source.raises_at # NoPage
    /\ source_calls.last.page = source.raises_at

\* C16: when the source raises during a sweep, the returned result has status
\* 'error', however many subscribers were counted before.
C16_SourceFailureIsError ==
    (SweepDone /\ SourceRaised) =>
        /\ outcome.kind = "return"
        /\ outcome.results.status = "error"

\* C17: a sweep always ends, and it ends by returning a result: no exception
\* reaches the caller of reconcile_all.
C17_SweepAlwaysReturns == <>(pc = "done" /\ outcome.kind = "return")

C17_Witness ==
    /\ SweepDone /\ outcome.kind = "return"
    /\ source.size = Endless
    /\ SourceRaised
    /\ outcome.results.processed = source.raises_at
    /\ outcome.results.errors.len >= 1

\* how create_enum_entries ended for the subscriber just processed
CreateSucceeded(r) ==
    r.kind = "return" /\ r.results.status \in {"ok", "disabled", "no_msisdns"}

CreateFailed(r) ==
    \/ r.kind = "return" /\ r.results.status = "partial"
    \/ r.kind = "raise" /\ r.exc.type = "ENUMManagementError"

\* C18: every subscriber the sweep processes increments processed and exactly one
\* of succeeded and failed: succeeded when its create returned 'ok', 'disabled' or
\* 'no_msisdns', failed when it returned 'partial' or raised in strict mode; and the
\* sweep goes on to the next subscriber or page (it ends there only at the page
\* ceiling).
C18_OneCounterPerSubscriber ==
    [][pc = "process" =>
          /\ sweep_results'.processed = sweep_results.processed + 1
          /\ CreateSucceeded(create_result') \/ CreateFailed(create_result')
          /\ CreateSucceeded(create_result') =>
                /\ sweep_results'.succeeded = sweep_results.succeeded + 1
                /\ sweep_results'.failed = sweep_results.failed
          /\ CreateFailed(create_result') =>
                /\ sweep_results'.failed = sweep_results.failed + 1
                /\ sweep_results'.succeeded = sweep_results.succeeded
          /\ pc' \in {"process", "fetch"} \/ page' > 10000]_vars

C18_Witness ==
    /\ op = "reconcile_all" /\ pc = "process" /\ sub_index > 1
    /\ create_result.kind = "return"
    /\ create_result.results.status = "partial"
    /\ sweep_results.failed >= 2
    /\ sweep_results.succeeded >= 2
    /\ sweep_results.processed = sweep_results.succeeded + sweep_results.failed

\* C19: every transport call made during a sweep carries REPLACE mutations only:
\* reconcile_all never sends a DELETE.
C19_SweepSendsOnlyReplace ==
    op = "reconcile_all" =>
        \A i \in 1..Len(calls) :
            /\ calls[i].rrsets # <<>>
            /\ \A k \in 1..Len(calls[i].rrsets) : calls[i].rrsets[k].changetype = "REPLACE"

C19_Witness ==
    /\ op = "reconcile_all" /\ pc = "fetch"
    /\ Len(calls) = 2
    /\ Len(calls[1].rrsets) = 2
    /\ sweep_results.processed = 2 * page_size

-----------------------------------------------------------------------------
(* Properties of re-assertion *)

\* C20: with a transport that always succeeds, asserting the same subscribers again
\* leaves the record sets of every backend zone as the first assertion left them.
C20_ReassertionIsIdempotent == passes >= 1 => backend = backend_once

C20_Witness ==
    /\ passes = 2
    /\ Len(subscribers) = 2
    /\ Len(endpoints) = 2
    /\ <<"u", "d">> \in DOMAIN backend
    /\ \E k \in DOMAIN backend[<<"u", "d">>] :
          /\ backend[<<"u", "d">>][k] = StaleRecord
          /\ \E j \in DOMAIN backend[<<"u", "d">>] :
                /\ j[1] = MsisdnToEnumName(<<"1">>, "d") \o <<".">>
                /\ backend[<<"u", "d">>][j] # StaleRecord

-----------------------------------------------------------------------------
(* Properties of the helpers *)

\* _make_pdns_request has returned after requests.patch answered with a response
TransportAnswered == pc = "done" /\ op = "_make_pdns_request" /\ args[2].kind = "http"

\* C21 as stated: the transport reports success for every 2xx status and failure
\* for every other status.
C21_Any2xxIsSuccess ==
    TransportAnswered => (outcome.results[1] <=> args[2].status_code \in 200..299)

\* C21: the transport reports success for the statuses 200 and 204 only; every
\* other status, those of the 2xx class included, is a failure whose detail
\* carries the status code and the response body.
C21_Only200And204AreSuccess ==
    TransportAnswered =>
        /\ outcome.results[1] <=> args[2].status_code \in {200, 204}
        /\ outcome.results[1] => outcome.results[2] = None
        /\ ~outcome.results[1] =>
              /\ outcome.results[2][2] = ToString(args[2].status_code)
              /\ Last(outcome.results[2]) = args[2].text

C21_Witness ==
    /\ TransportAnswered
    /\ args[2].status_code = 201
    /\ args[2].text = "boom"
    /\ ~outcome.results[1]
    /\ Last(outcome.results[2]) = "boom"

-----------------------------------------------------------------------------
(* Properties of the sync operations under any endpoint descriptor *)

\* C22: create, delete and update return a result or raise ENUMManagementError,
\* the latter in strict mode only; no other exception reaches the caller.
C22_OnlyEnumErrorEscapes ==
    pc = "done" =>
        \/ outcome.kind = "return"
        \/ outcome.kind = "raise" /\ outcome.exc.type = "ENUMManagementError" /\ strict_mode

-----------------------------------------------------------------------------
(* Properties of the payloads *)

\* the digits of d in reverse order, a dot after each, then the domain and the
\* trailing dot
ExpectedName(d, domain) ==
    [k \in 1..(2 * Len(d)) |-> IF k % 2 = 1 THEN d[Len(d) - (k - 1) \div 2] ELSE "."]
        \o <<domain, ".">>

\* '<order> <preference> "u" "E2U+sip" "!^.*$!sip:<digits>@<sipDomain>!" .'
ExpectedContent(d, sip_domain) ==
    <<"10", " ", "10", " \"u\" \"E2U+sip\" ", "\"!^.*$!sip:">> \o d \o <<"@", sip_domain, "!\" .">>

\* the MSISDN set parsed from the arguments of the call
ParsedArgs == ParseMsisdnList(args[1].msisdn, args[1].msisdn_list)

\* C23: every transport call of create carries one REPLACE descriptor per parsed
\* MSISDN, in parsed order, with type NAPTR, the configured TTL, the ENUM name
\* with a trailing dot and one content string built with the endpoint's SIP domain.
C23_CreatePayload ==
    (pc = "done" /\ op = "create") =>
        \A i \in 1..Len(calls) :
            LET call == calls[i]
                endpoint == endpoints[call.endpoint]
            IN /\ call.zone \in Range(EndpointDomains(endpoint))
               /\ Len(call.rrsets) = Len(ParsedArgs)
               /\ \A k \in 1..Len(ParsedArgs) :
                     /\ DOMAIN call.rrsets[k] = {"name", "type", "ttl", "changetype", "records"}
                     /\ call.rrsets[k].type = "NAPTR"
                     /\ call.rrsets[k].changetype = "REPLACE"
                     /\ call.rrsets[k].ttl = 3600
                     /\ call.rrsets[k].name = ExpectedName(ParsedArgs[k], call.zone)
                     /\ Len(call.rrsets[k].records) = 1
                     /\ call.rrsets[k].records[1].content =
                            ExpectedContent(ParsedArgs[k], DictGet(endpoint, "sip_domain", ""))

C23_Witness ==
    /\ pc = "done" /\ op = "create"
    /\ Len(calls) = 2
    /\ Len(ParsedArgs) = 2
    /\ Len(endpoints) = 2
    /\ calls[1].rrsets[2].name = <<"1", ".", "d", ".">>
    /\ calls[1].rrsets[2].records[1].content[Len(calls[1].rrsets[2].records[1].content) - 1] = "ims.a"
    /\ calls[2].endpoint = 2
    /\ "sip_domain" \notin DOMAIN endpoints[2]

\* C24: every transport call of delete carries one DELETE descriptor per parsed
\* MSISDN, with type NAPTR, no TTL field, an empty record list and the ENUM name
\* with a trailing dot.
C24_DeletePayload ==
    (pc = "done" /\ op = "delete") =>
        \A i \in 1..Len(calls) :
            LET call == calls[i]
            IN /\ call.zone \in Range(EndpointDomains(endpoints[call.endpoint]))
               /\ Len(call.rrsets) = Len(ParsedArgs)
               /\ \A k \in 1..Len(ParsedArgs) :
                     /\ DOMAIN call.rrsets[k] = {"name", "type", "changetype", "records"}
                     /\ call.rrsets[k].type = "NAPTR"
                     /\ call.rrsets[k].changetype = "DELETE"
                     /\ call.rrsets[k].records = <<>>
                     /\ call.rrsets[k].name = ExpectedName(ParsedArgs[k], call.zone)

C24_Witness ==
    /\ pc = "done" /\ op = "delete"
    /\ Len(calls) = 3
    /\ Len(ParsedArgs) = 2
    /\ calls[3].zone = "e"
    /\ calls[3].rrsets[1].name = <<"2", ".", "e", ".">>
    /\ "ttl" \notin DOMAIN calls[3].rrsets[2]

-----------------------------------------------------------------------------
(* Properties of the MSISDN normalizer and the ENUM name codec *)

\* _parse_msisdn_list has returned
Parsed == pc = "done" /\ op = "_parse_msisdn_list"

\* the digits of a string, None having none
Normalize(s) == IF s = None THEN <<>> ELSE SelectSeq(s, LAMBDA c : c \in DigitChars)

RECURSIVE Distinct(_)
\* the elements of a sequence without the later occurrences of each
Distinct(s) ==
    IF s = <<>> THEN <<>>
    ELSE LET init == Distinct(SubSeq(s, 1, Len(s) - 1))
         IN IF Last(s) \in Range(init) THEN init ELSE Append(init, Last(s))

\* the normalized primary followed by the normalized list entries, the empty ones dropped
NormalizedFields ==
    LET entries == IF args[2] = None \/ args[2] = <<>> THEN <<>> ELSE Split(args[2], ",")
    IN SelectSeq(<<Normalize(args[1])>> \o [k \in DOMAIN entries |-> Normalize(entries[k])],
                 LAMBDA d : d # <<>>)

\* C25: the parsed list has no duplicates and no empty strings, holds digit-only
\* strings, starts with the normalized primary when that is non-empty, and keeps
\* the list entries in the order of their first occurrence.
C25_ParsedSet ==
    Parsed =>
        /\ \A i, j \in DOMAIN outcome.results : i # j => outcome.results[i] # outcome.results[j]
        /\ \A i \in DOMAIN outcome.results :
              /\ outcome.results[i] # <<>>
              /\ Range(outcome.results[i]) \subseteq DigitChars
        /\ Normalize(args[1]) # <<>> => outcome.results[1] = Normalize(args[1])
        /\ outcome.results = Distinct(NormalizedFields)

C25_Witness ==
    /\ Parsed
    /\ args[1] = <<"+", "1">>
    /\ args[2] = <<"2", ",", "1", "2">>
    /\ outcome.results = <<<<"1">>, <<"2">>, <<"1", "2">>>>

\* C26: normalization is idempotent, and parsing the comma-joined parsed set
\* again yields the parsed set.
C26_NormalizeIdempotent ==
    Parsed =>
        /\ \A i \in 1..2 :
              args[i] # None => FilterDigits(FilterDigits(args[i])) = FilterDigits(args[i])
        /\ \A d \in Range(outcome.results) : FilterDigits(d) = d
        /\ ParseMsisdnList(None, JoinWith(outcome.results, ",")) = outcome.results

C26_Witness ==
    /\ Parsed
    /\ args[1] = <<"1", "+">>
    /\ args[2] = <<"+", "+", "2", ",">>
    /\ outcome.results = <<<<"1">>, <<"2">>>>

\* msisdn_to_enum_name has returned
Named == pc = "done" /\ op = "msisdn_to_enum_name"

\* the digits of d in reverse order with a dot between them, then a dot and the domain
ExpectedEnumName(d, domain) ==
    [k \in 1..(2 * Len(d) - 1) |-> IF k % 2 = 1 THEN d[Len(d) - (k - 1) \div 2] ELSE "."]
        \o <<".", domain>>

\* the reversed digits are those of the input, and non-digit characters do not count
ReversedDigitsThenDomain == Named => outcome.results = ExpectedEnumName(Normalize(args[1]), args[2])

\* the call of the docstring: 491721234567 under e164.arpa
DocstringCall == Named /\ Normalize(args[1]) = DocstringMsisdn /\ args[2] = "e164.arpa"

-----------------------------------------------------------------------------
(* Properties of the template cache *)

\* thread t has returned from a call of operation o
Finished(t, o) == threads[t].pc = "idle" /\ threads[t].op = o

\* C29: at most one IfcTemplateCache is ever constructed and every call of
\* get_template_cache returns that one instance, however the calls interleave.
C29_OneInstance ==
    /\ constructed <= 1
    /\ \A t \in DOMAIN threads :
          Finished(t, "get_template_cache") =>
              /\ constructed = 1
              /\ threads[t].ret = instance
              /\ threads[t].ret.id = 1

C29_Witness ==
    /\ constructed = 1
    /\ \E t, u, v \in Threads :
          /\ Finished(t, "get_template_cache") /\ threads[t].local = instance
          /\ Finished(u, "get_template_cache") /\ threads[u].ret = threads[t].ret
          /\ threads[u].args # threads[t].args
          /\ threads[v].pc = "instance_lock"

\* thread t returns from invalidate (or from one of its two wrappers) in this step
InvalidateReturns(t) ==
    /\ threads'[t] # threads[t]
    /\ threads'[t].pc = "idle"
    /\ threads'[t].op \in {"invalidate", "invalidate_db_template", "invalidate_file_template"}

\* C28: invalidate returns True exactly when the key was cached as the call took
\* effect; afterwards the key is absent and every other entry is as it was; the
\* two wrappers are invalidate on the keys 'db:<id>' and 'file:<path>'.
C28_InvalidateRemovesOneKey ==
    [][\A t \in DOMAIN threads :
          InvalidateReturns(t) =>
              LET call == threads'[t].args
              IN /\ threads'[t].ret = [kind |-> "bool", value |-> call.cache_key \in DOMAIN cache]
                 /\ DOMAIN cache' = (DOMAIN cache) \ {call.cache_key}
                 /\ \A k \in DOMAIN cache' : cache'[k] = cache[k]
                 /\ call.op = "invalidate_db_template" =>
                       call.cache_key = <<"db:", ToString(call.template_id)>>
                 /\ call.op = "invalidate_file_template" =>
                       call.cache_key = <<"file:", call.file_path>>]_vars

C28_Witness ==
    \E t, u \in DOMAIN threads :
        /\ Finished(t, "invalidate_db_template")
        /\ threads[t].ret = [kind |-> "bool", value |-> TRUE]
        /\ threads[t].args.cache_key \notin DOMAIN cache
        /\ Cardinality(DOMAIN cache) = 2
        /\ threads[u].pc = "db_store"
        /\ threads[u].args.ifc_template_id = threads[t].args.template_id

\* what get_template returns for its arguments while the database and the files
\* stay as they are
ExpectedTemplate(a) ==
    IF a.use_database /\ a.ifc_template_id # 0 /\ a.database /\ Loads(database[a.ifc_template_id])
    THEN Template(database[a.ifc_template_id].template_content)
    ELSE LET path == IF a.ifc_path = "" THEN "default_ifc.xml" ELSE a.ifc_path
         IN IF Loads(files[path]) THEN Template(files[path].content) ELSE NoValue

\* C30: with use_database true, a subscriber template id and a database,
\* get_template returns the database template when that loads and otherwise the
\* file template (the subscriber's ifc_path, else the default path); with
\* use_database false the database is not queried.
C30_TemplateSource ==
    \A t \in DOMAIN threads :
        Finished(t, "get_template") =>
            /\ threads[t].ret = ExpectedTemplate(threads[t].args)
            /\ ~threads[t].args.use_database => ~threads[t].queried
            /\ threads[t].queried =>
                  threads[t].args.ifc_template_id # 0 /\ threads[t].args.database

C30_Witness ==
    \E t, u \in DOMAIN threads :
        /\ Finished(t, "get_template")
        /\ threads[t].args = [use_database |-> TRUE, ifc_template_id |-> 1, ifc_path |-> "",
                              database |-> TRUE]
        /\ threads[t].queried
        /\ ~Loads(database[1])
        /\ threads[t].ret = Template("file ifc")
        /\ Finished(u, "get_template")
        /\ ~threads[u].args.use_database /\ threads[u].args.ifc_template_id = 1
        /\ threads[u].args.database /\ threads[u].args.ifc_path = "a.xml"
        /\ threads[u].ret = Template("file ifc")

-----------------------------------------------------------------------------
(* Properties of the Zn interface *)

\* C31: validate_naf_authorization returns True exactly when the hostname is in
\* the naf_hostnames list of some configured NAF group, and False when no group
\* is configured.
C31_AuthorizedIffInSomeGroup ==
    (pc = "done" /\ op = "validate_naf_authorization") =>
        LET groups == IF "naf_groups" \in DOMAIN bsf_config THEN bsf_config.naf_groups ELSE <<>>
        IN /\ outcome.results <=>
                 \E i \in DOMAIN groups :
                    /\ "naf_hostnames" \in DOMAIN groups[i]
                    /\ \E k \in DOMAIN groups[i].naf_hostnames : groups[i].naf_hostnames[k] = args[1]
           /\ groups = <<>> => ~outcome.results

C31_Witness ==
    /\ pc = "done" /\ op = "validate_naf_authorization"
    /\ outcome.results
    /\ Len(bsf_config.naf_groups) = 2
    /\ args[1] \notin Range(DictGet(bsf_config.naf_groups[1], "naf_hostnames", <<>>))

\* C32: for fixed CK and IK, a derivation with another (naf_id, impi) pair gives
\* another key, and a derivation with the same pair gives the same key.
C32_KeySeparation ==
    (pc = "done" /\ op = "derive_ks_naf") =>
        \A naf_id \in Identifiers, impi \in Identifiers :
            (DeriveKsNaf(args[1], args[2], naf_id, impi) = outcome.results)
                <=> (naf_id = args[3] /\ impi = args[4])

\* the value of a Base64 character
B64Value(c) == (CHOOSE i \in DOMAIN B64Alphabet : B64Alphabet[i] = c) - 1

RECURSIVE B64Decode(_)
\* the bytes a padded Base64 text stands for
B64Decode(text) ==
    IF Len(text) = 0 THEN <<>>
    ELSE LET pad == Cardinality({k \in 3..4 : text[k] = "="})
             v == [k \in 1..4 |-> IF text[k] = "=" THEN 0 ELSE B64Value(text[k])]
             n == v[1] * 262144 + v[2] * 4096 + v[3] * 64 + v[4]
             group == <<n \div 65536, (n \div 256) % 256, n % 256>>
         IN SubSeq(group, 1, 3 - pad) \o B64Decode(SubSeq(text, 5, Len(text)))

\* C33: generate_btid returns base64(rand), '@' and a hostname: the argument
\* when given, else the configured bsf_hostname, else the built-in default; the
\* part before '@' decodes to rand.
C33_BtidFormat ==
    (pc = "done" /\ op = "generate_btid") =>
        LET rand == args[1]
            btid == outcome.results
            at == CHOOSE i \in DOMAIN btid : btid[i] = "@" /\ \A j \in 1..(i - 1) : btid[j] # "@"
            encoded == SubSeq(btid, 1, at - 1)
            hostname == IF args[2] # None THEN args[2]
                        ELSE IF "bsf_hostname" \in DOMAIN bsf_config THEN bsf_config.bsf_hostname
                        ELSE <<"bsf.epc.mnc001.mcc001.3gppnetwork.org">>
        IN /\ \E i \in DOMAIN btid : btid[i] = "@"
           /\ Len(encoded) = 4 * ((Len(rand) + 2) \div 3)
           /\ \A i \in DOMAIN encoded : encoded[i] \in Range(B64Alphabet) \cup {"="}
           /\ B64Decode(encoded) = rand
           /\ SubSeq(btid, at + 1, Len(btid)) = hostname

C33_Witness ==
    /\ pc = "done" /\ op = "generate_btid"
    /\ args = <<<<0, 77, 255, 77>>, <<"bsf.arg">>>>
    /\ "bsf_hostname" \in DOMAIN bsf_config
    /\ outcome.results = <<"A", "E", "3", "/", "T", "Q", "=", "=", "@", "bsf.arg">>

\* C34: once an invalidate_db_template issued after an edit of the template's
\* row has completed, no get_template_from_db that began later returns a
\* template compiled from the content of before the edit.
C34_NoStaleTemplateAfterInvalidate ==
    \A t \in history.later :
        (threads[t].pc = "idle" /\ threads[t].op = "get_template_from_db") =>
            threads[t].ret # Template("db ifc")

\* the calls that invalidate one key
InvalidateOps == {"invalidate", "invalidate_db_template", "invalidate_file_template"}

\* C35: in sequential use the cache, empty at first, gains the key 'db:<id>'
\* only by a successful load of id and loses it only by an invalidation of it;
\* a successful load stores what it returns and an invalidation removes the key;
\* a hit returns the cached template without asking the database; a miss asks
\* the database; a failed load returns None and caches nothing.
C35_SequentialCache ==
    /\ cache = EmptyDict
    /\ [][\A id \in TemplateIds :
            LET key == CacheKeyDb(id)
                th == threads["t1"]
                after == threads'["t1"]
                invalidates == th.pc = "idle" /\ after.pc = "idle"
            IN /\ (key \notin DOMAIN cache /\ key \in DOMAIN cache') =>
                      /\ th.pc = "db_store" /\ th.args.ifc_template_id = id
                      /\ th.queried
               /\ (key \in DOMAIN cache /\ key \notin DOMAIN cache') =>
                      /\ invalidates
                      /\ \/ after.op = "invalidate_all"
                         \/ after.op \in InvalidateOps /\ after.args.cache_key = key
               /\ (th.pc = "db_store" /\ th.args.ifc_template_id = id) =>
                      /\ key \in DOMAIN cache' /\ cache'[key] = th.local
                      /\ after.pc = "idle" /\ after.ret = th.local
               /\ (invalidates /\ after.op \in InvalidateOps /\ after.args.cache_key = key) =>
                      key \notin DOMAIN cache'
               /\ (invalidates /\ after.op = "invalidate_all") => cache' = EmptyDict
               /\ (th.pc = "db_check" /\ th.args.ifc_template_id = id /\ key \in DOMAIN cache) =>
                      /\ after.pc = "idle" /\ after.ret = cache[key]
                      /\ ~after.queried
                      /\ cache' = cache
               /\ (th.pc = "db_check" /\ th.args.ifc_template_id = id /\ key \notin DOMAIN cache) =>
                      after.pc = "db_load"
               /\ (th.pc = "db_load" /\ th.args.ifc_template_id = id) =>
                      /\ after.queried
                      /\ key \notin DOMAIN cache'
                      /\ cache' = cache
                      /\ Loads(database[id]) =>
                            after.pc = "db_store" /\ after.local = Template(database[id].template_content)
                      /\ (~Loads(database[id]) /\ th.op = "get_template_from_db") =>
                            after.pc = "idle" /\ after.ret = NoValue
       ]_vars

\* a hit after an earlier load, next to a template that does not load
C35_Witness ==
    /\ DOMAIN threads = {"t1"}
    /\ threads["t1"].pc = "idle" /\ threads["t1"].op = "get_template_from_db"
    /\ threads["t1"].args.ifc_template_id = 1
    /\ ~threads["t1"].queried
    /\ threads["t1"].ret = cache[CacheKeyDb(1)]
    /\ ~Loads(database[2])
    /\ CacheKeyDb(2) \notin DOMAIN cache

-----------------------------------------------------------------------------
(* Properties of an update against the backends *)

\* what a backend holds in a zone, an untouched zone holding nothing
ZoneOf(b, key) == IF key \in DOMAIN b THEN b[key] ELSE EmptyDict

\* the backends after create_enum_entries for the edited numbers on empty zones
CreatedAfresh ==
    ApplyCalls(EmptyDict,
               CreateEnumEntries(args[2].msisdn, args[2].msisdn_list,
                                 AlwaysSucceeds(PairCount(endpoints))).calls)

\* C36: with a transport that always succeeds, update(old, new) run on the
\* backends left by create(old) leaves every zone with the records create(new)
\* leaves on empty zones: the added numbers present, the removed ones absent,
\* and no call touching a kept number.
C36_UpdateReachesCreateOfNew ==
    (pc = "done" /\ op = "update") =>
        LET old_set == Range(ParsedArg(1))
            new_set == Range(ParsedArg(2))
        IN /\ \A key \in DOMAIN backend \cup DOMAIN CreatedAfresh :
                 ZoneOf(backend, key) = ZoneOf(CreatedAfresh, key)
           /\ enabled =>
                 \A i \in DOMAIN ConfiguredPairs :
                    LET pair == ConfiguredPairs[i]
                        zone == ZoneOf(backend, <<endpoints[pair.endpoint].url, pair.zone>>)
                    IN /\ \A d \in new_set : <<ExpectedName(d, pair.zone), "NAPTR">> \in DOMAIN zone
                       /\ \A d \in old_set \ new_set :
                             <<ExpectedName(d, pair.zone), "NAPTR">> \notin DOMAIN zone
           /\ \A i \in DOMAIN calls :
                 \A k \in DOMAIN calls[i].rrsets, d \in old_set \cap new_set :
                    calls[i].rrsets[k].name # ExpectedName(d, calls[i].zone)

\* numbers 1 and 2 edited to 2 and 3 under two endpoints that write the same zone
C36_Witness ==
    /\ pc = "done" /\ op = "update"
    /\ enabled
    /\ Len(endpoints) = 2
    /\ Range(ParsedArg(1)) = {<<"1">>, <<"2">>}
    /\ Range(ParsedArg(2)) = {<<"2">>, <<"3">>}
    /\ Len(calls) = 2 * PairCount(endpoints)
    /\ DOMAIN backend = {<<"u", "d">>}
    /\ Cardinality(DOMAIN backend[<<"u", "d">>]) = 2

-----------------------------------------------------------------------------
(* Properties of the counters and the status of a sweep *)

\* reconcile_all has returned from an enabled engine
SweepReturned ==
    /\ pc = "done" /\ op = "reconcile_all"
    /\ enabled
    /\ outcome.kind = "return"

\* C37: on every return of reconcile_all with the engine enabled, after a
\* sweep-level exception and at the page ceiling too, processed equals
\* succeeded plus failed and the outcome list has processed entries.
C37_CountersAgree ==
    SweepReturned =>
        /\ sweep_results.processed = sweep_results.succeeded + sweep_results.failed
        /\ sweep_results.subscribers.len = sweep_results.processed

\* C38: reconcile_all with the engine enabled returns 'ok' exactly when no
\* subscriber was counted as failed and the global error list is empty, and
\* 'partial' whenever a subscriber was counted as failed.
C38_SweepStatus ==
    SweepReturned =>
        /\ sweep_results.status = "ok" <=>
              (sweep_results.failed = 0 /\ sweep_results.errors.len = 0)
        /\ sweep_results.failed > 0 => sweep_results.status = "partial"

\* a sweep that counted failures and then lost its source
C38_Witness ==
    /\ SweepReturned
    /\ sweep_results.status = "partial"
    /\ sweep_results.failed > 0
    /\ sweep_results.succeeded > 0
    /\ sweep_results.errors.last = <<"Reconciliation failed: ">> \o DatabaseError.msg

\* C39: with the engine disabled, reconcile_all returns status 'disabled'
\* without asking the subscriber source and without a transport call.
C39_DisabledSweepDoesNothing ==
    (~enabled /\ op = "reconcile_all") =>
        /\ pc = "done"
        /\ outcome = [kind |-> "return", results |-> [status |-> "disabled"], exc |-> NoExc]
        /\ source_calls.count = 0
        /\ calls = <<>>

\* a disabled engine with endpoints, next to a store that holds subscribers
C39_Witness ==
    /\ ~enabled /\ op = "reconcile_all" /\ pc = "done"
    /\ endpoints # <<>>
    /\ source.size = page_size
    /\ source.raises_at = 0

====
